---- MODULE Spec2Model ----
(***************************************************************************)
(* The Ralph Wiggum loop driver (ralph.ts, kept as src/unnamed/part_000)   *)
(* and the completion helpers of src/completion.ts.                        *)
(*                                                                         *)
(* Texts are sequences of one-character strings.  A driver process is one  *)
(* record of the function drv; the state file of the workspace is the      *)
(* variable file, shared by every driver started on that workspace.        *)
(*                                                                         *)
(* JavaScript runs one job at a time: the code between two awaits is one   *)
(* step here, and the SIGINT handler and the timers run only between such  *)
(* steps.  Two driver processes interleave at their file operations.       *)
(***************************************************************************)
EXTENDS Integers, Sequences, FiniteSets, TLC

(***************************************************************************)
(* Bounds of the model.                                                    *)
(***************************************************************************)
\* largest --max-iterations value tried (0 = unlimited is always tried)
MaxN == 2
\* an unlimited loop is followed up to this iteration number
IterCap == 3

(***************************************************************************)
(* Texts.                                                                  *)
(***************************************************************************)
UpperLetters ==
    <<"A","B","C","D","E","F","G","H","I","J","K","L","M","N","O","P","Q","R",
      "S","T","U","V","W","X","Y","Z">>

LowerLetters ==
    <<"a","b","c","d","e","f","g","h","i","j","k","l","m","n","o","p","q","r",
      "s","t","u","v","w","x","y","z">>

\* the effect of the regular expression flag "i" on one character
FoldCase(c) ==
    IF \E i \in 1..26 : UpperLetters[i] = c
    THEN LowerLetters[CHOOSE i \in 1..26 : UpperLetters[i] = c]
    ELSE c

\* the characters matched by \s
WhiteSpace == {" ", "\t", "\n", "\r", "\f"}

\* String.prototype.includes
Includes(text, needle) ==
    \E i \in 0..(Len(text) - Len(needle)) :
        SubSeq(text, i + 1, i + Len(needle)) = needle

(***************************************************************************)
(* Regular expressions, for the subset the program builds: literals,       *)
(* escaped characters, \s, ".", "^", "$" and the quantifiers * + ?.  An    *)
(* atom of kind "set" is a character class; its ch is the set of its       *)
(* characters.                                                             *)
(***************************************************************************)
RegexSpecial ==
    {".", "*", "+", "?", "^", "$", "{", "}", "(", ")", "|", "[", "]", "\\"}

RECURSIVE escapeRegex(_)
escapeRegex(str) ==
    IF str = <<>> THEN <<>>
    ELSE (IF Head(str) \in RegexSpecial
          THEN <<"\\", Head(str)>> ELSE <<Head(str)>>)
         \o escapeRegex(Tail(str))

\* new RegExp(p): the list of atoms of the pattern text p, read from i on
RECURSIVE CompileFrom(_, _)
CompileFrom(p, i) ==
    IF i > Len(p) THEN <<>>
    ELSE LET esc   == p[i] = "\\" /\ i < Len(p)
             base  == IF esc
                      THEN (IF p[i + 1] = "s"
                            THEN [kind |-> "space", ch |-> " "]
                            ELSE [kind |-> "lit", ch |-> p[i + 1]])
                      ELSE IF p[i] = "." THEN [kind |-> "any", ch |-> "."]
                      ELSE IF p[i] = "^" THEN [kind |-> "bol", ch |-> "^"]
                      ELSE IF p[i] = "$" THEN [kind |-> "eol", ch |-> "$"]
                      ELSE [kind |-> "lit", ch |-> p[i]]
             j     == IF esc THEN i + 2 ELSE i + 1
             hasQ  == j <= Len(p) /\ p[j] \in {"*", "+", "?"}
                      /\ base.kind \notin {"bol", "eol"}
             quant == IF hasQ THEN p[j] ELSE "1"
         IN  <<[kind |-> base.kind, ch |-> base.ch, quant |-> quant]>>
             \o CompileFrom(p, IF hasQ THEN j + 1 ELSE j)

Compile(p) == CompileFrom(p, 1)

AtomMatches(a, c, ignoreCase) ==
    CASE a.kind = "space" -> c \in WhiteSpace
      [] a.kind = "any"   -> c \notin {"\n", "\r"}
      [] a.kind = "set"   -> c \in a.ch
      [] OTHER            -> IF ignoreCase THEN FoldCase(a.ch) = FoldCase(c)
                             ELSE a.ch = c

\* can the atoms from k on match a part of text that starts at position j
RECURSIVE MatchAt(_, _, _, _, _)
MatchAt(atoms, k, text, j, ignoreCase) ==
    IF k > Len(atoms) THEN TRUE
    ELSE LET a    == atoms[k]
             here == j <= Len(text) /\ AtomMatches(a, text[j], ignoreCase)
             next == MatchAt(atoms, k + 1, text, j + 1, ignoreCase)
             skip == MatchAt(atoms, k + 1, text, j, ignoreCase)
             more == MatchAt(atoms, k, text, j + 1, ignoreCase)
         IN  CASE a.kind = "bol" -> j = 1 /\ skip
               [] a.kind = "eol" -> j = Len(text) + 1 /\ skip
               [] a.quant = "*"  -> skip \/ (here /\ more)
               [] a.quant = "+"  -> here /\ (next \/ more)
               [] a.quant = "?"  -> skip \/ (here /\ next)
               [] OTHER          -> here /\ next

\* RegExp.prototype.test
RegexTest(pattern, text, ignoreCase) ==
    LET atoms == Compile(pattern)
    IN  \E j \in 1..(Len(text) + 1) : MatchAt(atoms, 1, text, j, ignoreCase)

PromiseOpen ==
    <<"<","p","r","o","m","i","s","e",">">>

PromiseClose ==
    <<"<","/","p","r","o","m","i","s","e",">">>

WsStar ==
    <<"\\","s","*">>

\* the loose detector of the driver: the tag anywhere in the output
checkCompletion(output, promise) ==
    RegexTest(PromiseOpen \o WsStar \o escapeRegex(promise) \o WsStar
              \o PromiseClose, output, TRUE)

PlaceholderMessage ==
    <<"r","a","l","p","h","-","w","i","g","g","u","m"," ","i","s"," ","n","o",
      "t"," ","y","e","t"," ","r","e","a","d","y"," ","f","o","r"," ","u","s",
      "e","."," ","T","h","i","s"," ","i","s"," ","a"," ","p","l","a","c","e",
      "h","o","l","d","e","r"," ","p","a","c","k","a","g","e",".">>

detectPlaceholderPluginError(output) == Includes(output, PlaceholderMessage)

(***************************************************************************)
(* What a child process may write.                                         *)
(***************************************************************************)
TextWorking ==
    <<"w","o","r","k","i","n","g">>

TextTag ==
    <<"<","p","r","o","m","i","s","e",">","C","O","M","P","L","E","T","E","<",
      "/","p","r","o","m","i","s","e",">">>

TextLooseTag ==
    <<"o","k"," ","<","P","R","O","M","I","S","E",">"," ","c","o","m","p","l",
      "e","t","e"," ","<","/","P","r","o","m","i","s","e",">"," ","b","y","e">>

TextWrongTag ==
    <<"<","p","r","o","m","i","s","e",">","W","R","O","N","G","<","/","p","r",
      "o","m","i","s","e",">">>

StdoutTexts ==
    {TextWorking, TextLooseTag, TextWrongTag,
     TextTag \o <<"\n">> \o PlaceholderMessage}

StderrTexts == {<<>>, TextTag, PlaceholderMessage}

\* exit codes of a child; 143 is the code of a child ended by kill()
ChildExitCodes == {0, 3}
KilledCode == 143

Digits ==
    <<"0","1","2","3","4","5","6","7","8","9">>

\* String(n) for a natural number n
RECURSIVE NumberText(_)
NumberText(n) ==
    IF n < 10 THEN <<Digits[n + 1]>>
    ELSE NumberText(n \div 10) \o <<Digits[(n % 10) + 1]>>

(***************************************************************************)
(* Options of the command line.                                            *)
(***************************************************************************)
completionPromise ==
    <<"C","O","M","P","L","E","T","E">>

prompt == "task"
model == ""
startedAt == "t0"

(***************************************************************************)
(* State.                                                                  *)
(***************************************************************************)
VARIABLES
    file,           \* the state file .opencode/ralph-loop.state.json
    canUnlink,      \* environment: does unlinkSync of the state file succeed
    maxIterations,  \* --max-iterations, 0 = unlimited
    autoCommit,     \* FALSE under --no-commit
    drv,            \* the driver processes
    call,           \* one call of a helper function: arguments and result
    sp              \* one run of streamProcessOutput

vars == <<file, canUnlink, maxIterations, autoCommit, drv, call, sp>>

Drivers == {1, 2}

\* no helper function is being called
NoCall == [fn |-> "none", args |-> <<>>, done |-> FALSE, result |-> <<>>]

\* streamProcessOutput is not running
NoStream == [phase |-> "off"]

\* a RalphState before it is initialised
NoState ==
    [active |-> FALSE, iteration |-> 0, maxIterations |-> 0,
     completionPromise |-> <<>>, prompt |-> "", startedAt |-> "",
     model |-> ""]

\* the RalphState built at loop start
FreshState ==
    [active |-> TRUE, iteration |-> 1, maxIterations |-> maxIterations,
     completionPromise |-> completionPromise, prompt |-> prompt,
     startedAt |-> startedAt, model |-> model]

\* contents of the state file
Absent == [kind |-> "absent", value |-> NoState]
Corrupt == [kind |-> "corrupt", value |-> NoState]
Json(st) == [kind |-> "json", value |-> st]

\* a record left in the workspace by some earlier or other loop
LeftOver(act, it) ==
    [active |-> act, iteration |-> it, maxIterations |-> 0,
     completionPromise |-> completionPromise, prompt |-> "old",
     startedAt |-> "t-1", model |-> ""]

InitialFiles ==
    {Absent, Corrupt} \cup {Json(LeftOver(a, 2)) : a \in BOOLEAN}

(***************************************************************************)
(* Loop State Store.                                                       *)
(***************************************************************************)
\* the file after a successful saveState
saveState(st) == Json(st)

\* loadState that takes unparsable content for the record of a running loop
loadStateNoCatch(f) ==
    IF f.kind = "absent" THEN [isNull |-> TRUE, value |-> NoState]
    ELSE IF f.kind = "corrupt"
    THEN [isNull |-> FALSE, value |-> [NoState EXCEPT !.active = TRUE]]
    ELSE [isNull |-> FALSE, value |-> f.value]

\* loadState that never finds a record
loadStateAlwaysNull(f) == [isNull |-> TRUE, value |-> NoState]

\* null for a missing or unparsable file, else the parsed value
loadState(f) ==
    IF f.kind = "json" THEN [isNull |-> FALSE, value |-> f.value]
    ELSE [isNull |-> TRUE, value |-> NoState]

\* the file after clearState: a failing unlink is swallowed
clearState(f) ==
    IF f.kind # "absent" /\ canUnlink THEN Absent ELSE f

(***************************************************************************)
(* A driver process.                                                       *)
(***************************************************************************)
AwaitPoints ==
    {"streaming", "awaitExit", "gitStatus", "gitAdd", "gitCommit", "sleep",
     "backoff"}

NewDriver(pc0) ==
    [pc |-> pc0,            \* where runRalphLoop stands
     state |-> NoState,     \* const state
     handler |-> FALSE,     \* is the SIGINT handler installed
     stopping |-> FALSE,    \* let stopping
     currentProc |-> 0,     \* let currentProc: index in children, 0 = null
     children |-> <<>>,     \* every child spawned so far
     result |-> <<>>,       \* stdout text of this iteration
     stderr |-> <<>>,       \* stderr text of this iteration
     exitCode |-> -1,       \* exit code of the driver, -1 while it runs
     outcome |-> "none",    \* the terminal state it ended in
     errors |-> 0,          \* iterations ended by the catch block
     commits |-> 0,         \* auto-commits made
     fullPrompt |-> <<>>,   \* const fullPrompt of the last pass
     git |-> "none"]        \* how far the auto-commit of this pass got

Step(r, f) == [d |-> r, f |-> f]

\* process.exit(code), or the return of runRalphLoop
Exit(r, f, code, oc) ==
    Step([r EXCEPT !.pc = "exited", !.exitCode = code, !.outcome = oc], f)

\* a top-level catch that forgets clearState
FatalNoClear(r, f) == Exit(r, f, 1, "Fatal")

\* runRalphLoop().catch
Fatal(r, f) == Exit(r, clearState(f), 1, "Fatal")

\* the catch block of one iteration; wc: does its saveState succeed
CatchIteration(r, f, wc) ==
    LET st == [r.state EXCEPT !.iteration = @ + 1]
        r1 == [r EXCEPT !.state = st, !.errors = @ + 1,
                        !.result = <<>>, !.stderr = <<>>]
    IN  IF wc THEN Step([r1 EXCEPT !.pc = "backoff"], saveState(st))
        ELSE Fatal(r1, f)

\* an end of the iteration that stamps the record with a new start time
EndIterationRestamp(r, f, wt, wc) ==
    LET st == [r.state EXCEPT !.iteration = @ + 1, !.startedAt = "t1"]
        r1 == [r EXCEPT !.state = st, !.result = <<>>, !.stderr = <<>>]
    IN  IF wt THEN Step([r1 EXCEPT !.pc = "sleep"], saveState(st))
        ELSE CatchIteration(r1, f, wc)

\* the end of an iteration that neither aborted nor completed;
\* wt: does the saveState of the try block succeed
EndIteration(r, f, wt, wc) ==
    LET st == [r.state EXCEPT !.iteration = @ + 1]
        r1 == [r EXCEPT !.state = st, !.result = <<>>, !.stderr = <<>>]
    IN  IF wt THEN Step([r1 EXCEPT !.pc = "sleep"], saveState(st))
        ELSE CatchIteration(r1, f, wc)

\* the prompt given to the child, as the list of the pieces of the
\* template and the values put between them; trim() takes the line break
\* off both ends of the template
buildPrompt(st) ==
    << "# Ralph Wiggum Loop - Iteration ",
       NumberText(st.iteration),
       "\n\nYou are in an iterative development loop. Work on the task ",
       "below until you can genuinely complete it.\n\n## Your Task\n\n",
       st.prompt,
       "\n\n## Instructions\n\n",
       "1. Read the current state of files to understand what's been done\n",
       "2. Make progress on the task\n",
       "3. Run tests/verification if applicable\n",
       "4. When the task is GENUINELY COMPLETE, output:\n   <promise>",
       st.completionPromise,
       "</promise>\n\n## Critical Rules\n\n- ONLY output <promise>",
       st.completionPromise,
       "</promise> when the task is truly done\n",
       "- Do NOT lie or output false promises to exit the loop\n",
       "- If stuck, try a different approach\n",
       "- Check your work before claiming completion\n",
       "- The loop will continue until you succeed\n\n## Current Iteration: ",
       NumberText(st.iteration),
       IF st.maxIterations > 0
       THEN <<" ", "/", " ">> \o NumberText(st.maxIterations)
       ELSE <<" ","(","u","n","l","i","m","i","t","e","d",")">>,
       "\n\nNow, work on the task. Good luck!" >>

\* a loop that stops one iteration early (>= for >)
LoopTopOffByOne(r, f, spawnOk, wc) ==
    IF maxIterations > 0 /\ r.state.iteration >= maxIterations
    THEN Exit(r, clearState(f), 0, "MaxIterationsReached")
    ELSE LET r1 == [r EXCEPT !.fullPrompt = buildPrompt(r.state)]
         IN  IF spawnOk
             THEN Step([r1 EXCEPT !.children = Append(@, [alive |-> TRUE,
                                                          code |-> -1]),
                                  !.currentProc = Len(r.children) + 1,
                                  !.pc = "streaming"], f)
             ELSE CatchIteration(r1, f, wc)

\* the top of the while loop up to the first await of the iteration
LoopTop(r, f, spawnOk, wc) ==
    IF maxIterations > 0 /\ r.state.iteration > maxIterations
    THEN Exit(r, clearState(f), 0, "MaxIterationsReached")
    ELSE LET r1 == [r EXCEPT !.fullPrompt = buildPrompt(r.state)]
         IN  IF spawnOk
             THEN Step([r1 EXCEPT !.children = Append(@, [alive |-> TRUE,
                                                          code |-> -1]),
                                  !.currentProc = Len(r.children) + 1,
                                  !.pc = "streaming"], f)
             ELSE CatchIteration(r1, f, wc)

\* the decisions with the tag looked for in stdout only
AfterExitStdoutOnly(r, f, wt, wc) ==
    LET exitCode == r.children[r.currentProc].code
        r1 == [r EXCEPT !.currentProc = 0]
        combinedOutput == r.result \o <<"\n">> \o r.stderr
        completionDetected == checkCompletion(r.result, completionPromise)
    IN  IF detectPlaceholderPluginError(combinedOutput)
        THEN Exit(r1, clearState(f), 1, "Aborted")
        ELSE IF exitCode # 0
        THEN Exit(r1, clearState(f), exitCode, "Aborted")
        ELSE IF completionDetected
        THEN Exit(r1, clearState(f), 0, "Completed")
        ELSE IF autoCommit
        THEN Step([r1 EXCEPT !.pc = "gitStatus"], f)
        ELSE EndIteration(r1, f, wt, wc)

\* the decisions with the completion check ahead of the exit code check
AfterExitCompletionFirst(r, f, wt, wc) ==
    LET exitCode == r.children[r.currentProc].code
        r1 == [r EXCEPT !.currentProc = 0]
        combinedOutput == r.result \o <<"\n">> \o r.stderr
        completionDetected == checkCompletion(combinedOutput, completionPromise)
    IN  IF detectPlaceholderPluginError(combinedOutput)
        THEN Exit(r1, clearState(f), 1, "Aborted")
        ELSE IF completionDetected
        THEN Exit(r1, clearState(f), 0, "Completed")
        ELSE IF exitCode # 0
        THEN Exit(r1, clearState(f), exitCode, "Aborted")
        ELSE IF autoCommit
        THEN Step([r1 EXCEPT !.pc = "gitStatus"], f)
        ELSE EndIteration(r1, f, wt, wc)

\* the decisions with the exit code check ahead of the placeholder check
AfterExitExitCodeFirst(r, f, wt, wc) ==
    LET exitCode == r.children[r.currentProc].code
        r1 == [r EXCEPT !.currentProc = 0]
        combinedOutput == r.result \o <<"\n">> \o r.stderr
        completionDetected == checkCompletion(combinedOutput, completionPromise)
    IN  IF exitCode # 0
        THEN Exit(r1, clearState(f), exitCode, "Aborted")
        ELSE IF detectPlaceholderPluginError(combinedOutput)
        THEN Exit(r1, clearState(f), 1, "Aborted")
        ELSE IF completionDetected
        THEN Exit(r1, clearState(f), 0, "Completed")
        ELSE IF autoCommit
        THEN Step([r1 EXCEPT !.pc = "gitStatus"], f)
        ELSE EndIteration(r1, f, wt, wc)

\* after await exitCodePromise: the decisions of the iteration
AfterExit(r, f, wt, wc) ==
    LET exitCode == r.children[r.currentProc].code
        r1 == [r EXCEPT !.currentProc = 0]
        combinedOutput == r.result \o <<"\n">> \o r.stderr
        completionDetected == checkCompletion(combinedOutput, completionPromise)
    IN  IF detectPlaceholderPluginError(combinedOutput)
        THEN Exit(r1, clearState(f), 1, "Aborted")
        ELSE IF exitCode # 0
        THEN Exit(r1, clearState(f), exitCode, "Aborted")
        ELSE IF completionDetected
        THEN Exit(r1, clearState(f), 0, "Completed")
        ELSE IF autoCommit
        THEN Step([r1 EXCEPT !.pc = "gitStatus"], f)
        ELSE EndIteration(r1, f, wt, wc)

\* currentProc.kill()
Kill(children, i) ==
    IF i # 0 /\ children[i].alive
    THEN [children EXCEPT ![i] = [alive |-> FALSE, code |-> KilledCode]]
    ELSE children

\* the SIGINT handler
SigintHandler(r, f) ==
    IF r.stopping THEN Exit(r, f, 1, "Forced")
    ELSE Exit([r EXCEPT !.stopping = TRUE,
                        !.children = Kill(@, r.currentProc)],
              clearState(f), 0, "Cancelled")

(***************************************************************************)
(* Steps.                                                                  *)
(***************************************************************************)
Apply(d, s) ==
    /\ drv' = [drv EXCEPT ![d] = s.d]
    /\ file' = s.f
    /\ UNCHANGED <<canUnlink, maxIterations, autoCommit, call, sp>>

\* loadState and the check for an active loop
LockCheck(d) ==
    /\ drv[d].pc = "start"
    /\ LET existingState == loadState(file)
       IN  IF ~existingState.isNull /\ existingState.value.active
           THEN Apply(d, Exit(drv[d], file, 1, "LockConflict"))
           ELSE Apply(d, Step([drv[d] EXCEPT !.pc = "init"], file))

\* the first saveState, the SIGINT handler and the first pass of the loop
Start(d) ==
    /\ drv[d].pc = "init"
    /\ \E w \in BOOLEAN, spawnOk \in BOOLEAN, wc \in BOOLEAN :
        LET r == [drv[d] EXCEPT !.state = FreshState]
        IN  IF w
            THEN Apply(d, LoopTop([r EXCEPT !.handler = TRUE],
                                  saveState(FreshState), spawnOk, wc))
            ELSE Apply(d, Fatal(r, file))

\* both output streams of the child end
StreamDone(d) ==
    /\ drv[d].pc = "streaming"
    /\ \E out \in StdoutTexts, err \in StderrTexts :
        Apply(d, Step([drv[d] EXCEPT !.result = out, !.stderr = err,
                                     !.pc = "awaitExit"], file))

\* reading a stream raises an exception
StreamError(d) ==
    /\ drv[d].pc = "streaming"
    /\ \E wc \in BOOLEAN : Apply(d, CatchIteration(drv[d], file, wc))

\* a child process ends
ChildExit(d) ==
    /\ drv[d].pc \notin {"off", "exited"}
    /\ \E i \in 1..Len(drv[d].children), c \in ChildExitCodes :
        /\ drv[d].children[i].alive
        /\ drv' = [drv EXCEPT ![d].children[i] = [alive |-> FALSE, code |-> c]]
    /\ UNCHANGED <<file, canUnlink, maxIterations, autoCommit, call, sp>>

\* proc.exited resolves
ProcExited(d) ==
    /\ drv[d].pc = "awaitExit"
    /\ ~drv[d].children[drv[d].currentProc].alive
    /\ \E wt \in BOOLEAN, wc \in BOOLEAN :
        Apply(d, AfterExit(drv[d], file, wt, wc))

\* a failure of git status that is caught by the catch block of the
\* iteration
GitStatusThrows(d) ==
    /\ drv[d].pc = "gitStatus"
    /\ \E status \in {"clean", "dirty", "failed"},
          wt \in BOOLEAN, wc \in BOOLEAN :
        IF status = "dirty"
        THEN Apply(d, Step([drv[d] EXCEPT !.pc = "gitAdd", !.git = status],
                           file))
        ELSE IF status = "failed"
        THEN Apply(d, CatchIteration([drv[d] EXCEPT !.git = status], file,
                                     wc))
        ELSE Apply(d, EndIteration([drv[d] EXCEPT !.git = status], file, wt,
                                   wc))

\* git status --porcelain
GitStatus(d) ==
    /\ drv[d].pc = "gitStatus"
    /\ \E status \in {"clean", "dirty", "failed"},
          wt \in BOOLEAN, wc \in BOOLEAN :
        IF status = "dirty"
        THEN Apply(d, Step([drv[d] EXCEPT !.pc = "gitAdd", !.git = status],
                           file))
        ELSE Apply(d, EndIteration([drv[d] EXCEPT !.git = status], file, wt,
                                   wc))

\* git add -A
GitAdd(d) ==
    /\ drv[d].pc = "gitAdd"
    /\ \E ok \in BOOLEAN, wt \in BOOLEAN, wc \in BOOLEAN :
        IF ok
        THEN Apply(d, Step([drv[d] EXCEPT !.pc = "gitCommit",
                                          !.git = "staged"], file))
        ELSE Apply(d, EndIteration([drv[d] EXCEPT !.git = "failed"], file,
                                   wt, wc))

\* git commit
GitCommit(d) ==
    /\ drv[d].pc = "gitCommit"
    /\ \E ok \in BOOLEAN, wt \in BOOLEAN, wc \in BOOLEAN :
        Apply(d, EndIteration(
                    [drv[d] EXCEPT !.commits = IF ok THEN @ + 1 ELSE @,
                                   !.git = IF ok THEN "committed"
                                           ELSE "failed"],
                    file, wt, wc))

\* the delay after an iteration ends and the next pass of the loop begins
Wake(d) ==
    /\ drv[d].pc \in {"sleep", "backoff"}
    /\ \/ maxIterations > 0 /\ drv[d].state.iteration > maxIterations
       \/ drv[d].state.iteration <= IterCap
    /\ \E spawnOk \in BOOLEAN, wc \in BOOLEAN :
        Apply(d, LoopTop([drv[d] EXCEPT !.git = "none"], file, spawnOk, wc))

\* an interrupt signal is handled
Sigint(d) ==
    /\ drv[d].handler
    /\ drv[d].pc \in AwaitPoints
    /\ Apply(d, SigintHandler(drv[d], file))

\* the file system starts or stops refusing to delete the state file
FsChange ==
    /\ \E d \in Drivers : drv[d].pc \notin {"off", "exited"}
    /\ canUnlink' = ~canUnlink
    /\ UNCHANGED <<file, maxIterations, autoCommit, drv, call, sp>>

DriverStep(d) ==
    \/ LockCheck(d)
    \/ Start(d)
    \/ StreamDone(d)
    \/ StreamError(d)
    \/ ChildExit(d)
    \/ ProcExited(d)
    \/ GitStatus(d)
    \/ GitAdd(d)
    \/ GitCommit(d)
    \/ Wake(d)
    \/ Sigint(d)

\* one driver on the workspace
Init ==
    /\ file \in InitialFiles
    /\ canUnlink = TRUE
    /\ maxIterations \in 0..MaxN
    /\ autoCommit \in BOOLEAN
    /\ drv = [d \in Drivers |-> NewDriver(IF d = 1 THEN "start" ELSE "off")]
    /\ call = NoCall
    /\ sp = NoStream

Next == FsChange \/ \E d \in Drivers : DriverStep(d)

Spec == Init /\ [][Next]_vars

\* the steps the event loop takes when their job is ready: a child that
\* exits, streams that end, git commands that return, timers that fire
Progress(d) ==
    \/ LockCheck(d)
    \/ Start(d)
    \/ StreamDone(d)
    \/ ChildExit(d)
    \/ GitStatus(d)
    \/ GitAdd(d)
    \/ GitCommit(d)
    \/ Wake(d)

\* proc.exited can resolve: ProcExited(d) is enabled
ProcExitedReady(d) ==
    /\ drv[d].pc = "awaitExit"
    /\ ~drv[d].children[drv[d].currentProc].alive

\* one driver whose children exit and whose awaits are answered; signals,
\* exceptions and changes of the file system may or may not come.  The
\* last conjunct is WF_vars(ProcExited(1)) with its ENABLED written out.
SpecLive ==
    /\ Init /\ [][Next]_vars
    /\ WF_vars(Progress(1))
    /\ ([]<>~ProcExitedReady(1) \/ []<><<ProcExited(1)>>_vars)

\* two drivers started on the same workspace
Init2 ==
    /\ file \in {Absent, Corrupt}
    /\ canUnlink = TRUE
    /\ maxIterations = 1
    /\ autoCommit = TRUE
    /\ drv = [d \in Drivers |-> NewDriver("start")]
    /\ call = NoCall
    /\ sp = NoStream

Next2 == \E d \in Drivers : DriverStep(d)

Spec2 == Init2 /\ [][Next2]_vars

(***************************************************************************)
(* Properties of one driver (Spec).                                        *)
(***************************************************************************)
\* the combined output the driver examines
Combined(r) == r.result \o <<"\n">> \o r.stderr

\* the best-effort clear has run: the file is gone unless unlink failed
Cleared(f) == f.kind = "absent" \/ ~canUnlink

\* the step in which the driver goes on after await exitCodePromise
\* (an interrupt handled at that point sets stopping instead)
ResumesAfterExit ==
    /\ drv[1].pc = "awaitExit"
    /\ drv'[1].pc # "awaitExit"
    /\ ~drv'[1].stopping

\* a driver that has exited does nothing more
ExitedIsFinal ==
    drv[1].pc = "exited" => drv'[1] = drv[1] /\ file' = file

\* C1: a driver started while the state file holds a record with
\* active = true exits with code 1, spawns no child and leaves the state
\* file as it found it.
LockConflictExits ==
    [][/\ (/\ drv[1].pc = "start"
           /\ file.kind = "json" /\ file.value.active
           /\ drv'[1].pc # "start")
          => /\ drv'[1].pc = "exited"
             /\ drv'[1].exitCode = 1
             /\ drv'[1].children = <<>>
             /\ file' = file
       /\ ExitedIsFinal]_vars

LockConflictReached ==
    /\ drv[1].pc = "exited"
    /\ drv[1].outcome = "LockConflict"
    /\ drv[1].exitCode = 1
    /\ file = Json(LeftOver(TRUE, 2))

\* C2 as stated: whenever a driver that passed the lock check has exited,
\* the state file does not exist.
NoStateFileAtExit ==
    (drv[1].pc = "exited" /\ drv[1].outcome # "LockConflict")
        => file.kind = "absent"

\* C2, amended: whenever a driver that passed the lock check has exited, it
\* has run the best-effort clear: the state file does not exist unless its
\* deletion failed.
StateClearedAtExit ==
    (drv[1].pc = "exited" /\ drv[1].outcome # "LockConflict")
        => Cleared(file)

StateClearedReached ==
    /\ drv[1].pc = "exited"
    /\ drv[1].outcome = "Fatal"
    /\ drv[1].state.iteration > 1
    /\ canUnlink
    /\ file.kind = "absent"

\* C3: a loop started with maxIterations = N >= 1 never spawns more than N
\* children; when it stops because the limit is reached it has cleared the
\* state file and exits with code 0, and if no iteration ended in the catch
\* block it has spawned exactly N children.
MaxIterationsStop ==
    /\ maxIterations > 0 => Len(drv[1].children) <= maxIterations
    /\ drv[1].outcome = "MaxIterationsReached"
        => /\ drv[1].pc = "exited"
           /\ drv[1].exitCode = 0
           /\ Cleared(file)
           /\ drv[1].errors = 0 => Len(drv[1].children) = maxIterations

MaxIterationsReached ==
    /\ drv[1].outcome = "MaxIterationsReached"
    /\ maxIterations = 2
    /\ drv[1].errors = 0
    /\ Len(drv[1].children) = 2
    /\ file.kind = "absent"

\* C4: when the child has exited with code 0 and the combined output has no
\* placeholder diagnostic and matches checkCompletion, the driver clears the
\* state file and exits with code 0 as Completed, without incrementing the
\* iteration, spawning a child or committing.
CompletionStops ==
    [][/\ (/\ ResumesAfterExit
           /\ drv[1].children[drv[1].currentProc].code = 0
           /\ ~detectPlaceholderPluginError(Combined(drv[1]))
           /\ checkCompletion(Combined(drv[1]), completionPromise))
          => /\ drv'[1].pc = "exited"
             /\ drv'[1].exitCode = 0
             /\ drv'[1].outcome = "Completed"
             /\ drv'[1].state = drv[1].state
             /\ drv'[1].children = drv[1].children
             /\ drv'[1].commits = drv[1].commits
             /\ Cleared(file')
       /\ ExitedIsFinal]_vars

CompletionReached ==
    /\ drv[1].outcome = "Completed"
    /\ drv[1].exitCode = 0
    /\ drv[1].result = TextWorking
    /\ drv[1].stderr = TextTag
    /\ drv[1].state.iteration = 2
    /\ file.kind = "absent"

\* C5: when the child has exited with a code c # 0 and the combined output
\* has no placeholder diagnostic, the driver clears the state file and exits
\* with code c, tag or no tag, and spawns nothing more.
ChildFailureAborts ==
    [][/\ (/\ ResumesAfterExit
           /\ drv[1].children[drv[1].currentProc].code # 0
           /\ ~detectPlaceholderPluginError(Combined(drv[1])))
          => /\ drv'[1].pc = "exited"
             /\ drv'[1].exitCode = drv[1].children[drv[1].currentProc].code
             /\ drv'[1].state = drv[1].state
             /\ drv'[1].children = drv[1].children
             /\ Cleared(file')
       /\ ExitedIsFinal]_vars

ChildFailureReached ==
    /\ drv[1].outcome = "Aborted"
    /\ drv[1].exitCode = 3
    /\ drv[1].children[Len(drv[1].children)].code = 3
    /\ drv[1].result = TextLooseTag
    /\ checkCompletion(Combined(drv[1]), completionPromise)
    /\ file.kind = "absent"

\* C6: when the combined output contains the placeholder diagnostic, the
\* driver clears the state file and exits with code 1, whatever the exit
\* code of the child and tag or no tag.
PlaceholderAborts ==
    [][/\ (/\ ResumesAfterExit
           /\ detectPlaceholderPluginError(Combined(drv[1])))
          => /\ drv'[1].pc = "exited"
             /\ drv'[1].exitCode = 1
             /\ drv'[1].state = drv[1].state
             /\ drv'[1].children = drv[1].children
             /\ Cleared(file')
       /\ ExitedIsFinal]_vars

PlaceholderReached ==
    /\ drv[1].outcome = "Aborted"
    /\ drv[1].exitCode = 1
    /\ drv[1].children[Len(drv[1].children)].code = 3
    /\ drv[1].result = TextTag \o <<"\n">> \o PlaceholderMessage
    /\ file.kind = "absent"

\* C7 as stated: every iteration that ends in the catch block leaves the
\* driver running: the iteration is incremented, the state is persisted
\* with active = true and the driver waits for the next pass of the loop.
TransientErrorContinues ==
    [][drv'[1].errors # drv[1].errors
          => /\ drv'[1].pc = "backoff"
             /\ drv'[1].state.iteration > drv[1].state.iteration
             /\ drv'[1].state.active
             /\ file' = Json(drv'[1].state)]_vars

\* C8 as stated: the first interrupt leaves no child running, clears the
\* state file and ends the driver with code 0; nothing is spawned or
\* written afterwards.
CancellationStops ==
    [][/\ (~drv[1].stopping /\ drv'[1].stopping)
          => /\ drv'[1].pc = "exited"
             /\ drv'[1].exitCode = 0
             /\ \A i \in 1..Len(drv'[1].children) : ~drv'[1].children[i].alive
             /\ Len(drv'[1].children) = Len(drv[1].children)
             /\ Cleared(file')
       /\ ExitedIsFinal]_vars

\* C9: an interrupt handled while stopping is set ends the driver with
\* code 1 and leaves the children and the state file alone.  The handler
\* runs to process.exit in one job, so no such interrupt is ever handled.
SecondInterruptForces ==
    [][(drv[1].stopping /\ drv[1].pc # "exited" /\ drv'[1] # drv[1])
          => /\ drv'[1].pc = "exited"
             /\ drv'[1].exitCode = 1
             /\ drv'[1].children = drv[1].children
             /\ file' = file]_vars

(***************************************************************************)
(* Properties of two drivers on one workspace (Spec2).                     *)
(***************************************************************************)
\* the driver has passed the lock check and is running iterations
Running(d) == drv[d].pc \in AwaitPoints

\* C10 as stated: two drivers never run iterations on the same workspace
\* at the same time.
MutualExclusion == ~(Running(1) /\ Running(2))

(***************************************************************************)
(* Children of one driver (Spec).                                          *)
(***************************************************************************)
\* the spawned children of driver d that have not exited
AliveChildren(d) ==
    {i \in 1..Len(drv[d].children) : drv[d].children[i].alive}

\* C11 as stated: at most one spawned child of the driver is alive in every
\* reachable state; the driver never spawns while the child of an earlier
\* iteration has not exited, the per-iteration exception path included.
SingleChild == Cardinality(AliveChildren(1)) <= 1

(***************************************************************************)
(* The completion helpers of src/completion.ts.                            *)
(***************************************************************************)
IsDigit(c) == \E i \in 1..10 : Digits[i] = c

\* the end of the SGR sequence ESC [ ... m that starts at i, 0 if none does;
\* "ESC" stands for the one character U+001B
AnsiEnd(text, i) ==
    IF i + 1 <= Len(text) /\ text[i] = "ESC" /\ text[i + 1] = "["
    THEN LET stops == {j \in (i + 2)..Len(text) :
                           ~(IsDigit(text[j]) \/ text[j] = ";")}
         IN  IF stops = {} THEN 0
             ELSE LET j == CHOOSE k \in stops : \A l \in stops : k <= l
                  IN  IF text[j] = "m" THEN j ELSE 0
    ELSE 0

\* the positions 1..Len(text), in order
Positions(text) == [i \in 1..Len(text) |-> i]

\* the characters of text at the positions in keep, in order
Kept(text, keep) ==
    LET at == SelectSeq(Positions(text), LAMBDA k : k \in keep)
    IN  [k \in 1..Len(at) |-> text[at[k]]]

\* input.replace(ANSI_PATTERN, ""): a sequence has no ESC after its first
\* character, so no sequence starts inside another
stripAnsi(input) ==
    LET starts  == {i \in 1..Len(input) : AnsiEnd(input, i) > 0}
        removed == UNION {i..AnsiEnd(input, i) : i \in starts}
    IN  Kept(input, (1..Len(input)) \ removed)

\* replace(/\r\n/g, "\n")
ReplaceCrLf(text) ==
    Kept(text, {k \in 1..Len(text) :
                   ~(text[k] = "\r" /\ k < Len(text) /\ text[k + 1] = "\n")})

\* the pieces of text between the line feeds; when dropCr, a carriage
\* return just before a line feed belongs to the separator
SplitAt(text, dropCr) ==
    LET lf    == SelectSeq(Positions(text), LAMBDA k : text[k] = "\n")
        from(k) == IF k = 1 THEN 1 ELSE lf[k - 1] + 1
        upto(k) == IF k > Len(lf) THEN Len(text)
                   ELSE IF dropCr /\ lf[k] - 1 >= from(k)
                           /\ text[lf[k] - 1] = "\r"
                   THEN lf[k] - 2
                   ELSE lf[k] - 1
    IN  [k \in 1..(Len(lf) + 1) |-> SubSeq(text, from(k), upto(k))]

\* split("\n")
SplitNewline(text) == SplitAt(text, FALSE)

\* split(/\r?\n/)
SplitLines(text) == SplitAt(text, TRUE)

\* String.prototype.trim
Trim(line) ==
    LET keep == {i \in 1..Len(line) : line[i] \notin WhiteSpace}
    IN  IF keep = {} THEN <<>>
        ELSE SubSeq(line, CHOOSE i \in keep : \A j \in keep : i <= j,
                          CHOOSE i \in keep : \A j \in keep : i >= j)

\* the lines of seq that are not empty, in order: filter(Boolean)
FilterNonEmpty(seq) == SelectSeq(seq, LAMBDA l : l # <<>>)

\* null is the record with isNull = TRUE
getLastNonEmptyLineFirst(output) ==
    LET split == SplitNewline(ReplaceCrLf(stripAnsi(output)))
        lines == FilterNonEmpty([i \in 1..Len(split) |-> Trim(split[i])])
    IN  IF Len(lines) > 0 THEN [isNull |-> FALSE, line |-> lines[1]]
        ELSE [isNull |-> TRUE, line |-> <<>>]

getLastNonEmptyLine(output) ==
    LET split == SplitNewline(ReplaceCrLf(stripAnsi(output)))
        lines == FilterNonEmpty([i \in 1..Len(split) |-> Trim(split[i])])
    IN  IF Len(lines) > 0 THEN [isNull |-> FALSE, line |-> lines[Len(lines)]]
        ELSE [isNull |-> TRUE, line |-> <<>>]

checkTerminalPromiseUnanchored(output, promise) ==
    LET lastLine == getLastNonEmptyLine(output)
    IN  IF lastLine.isNull \/ lastLine.line = <<>> THEN FALSE
        ELSE RegexTest(PromiseOpen \o WsStar \o escapeRegex(promise)
                       \o WsStar \o PromiseClose, lastLine.line, TRUE)

checkTerminalPromiseCaseSensitive(output, promise) ==
    LET lastLine == getLastNonEmptyLine(output)
    IN  IF lastLine.isNull \/ lastLine.line = <<>> THEN FALSE
        ELSE RegexTest(<<"^">> \o PromiseOpen \o WsStar
                       \o escapeRegex(promise) \o WsStar \o PromiseClose
                       \o <<"$">>, lastLine.line, FALSE)

\* the anchored detector: the tag is the whole last non-empty line
checkTerminalPromise(output, promise) ==
    LET lastLine == getLastNonEmptyLine(output)
    IN  IF lastLine.isNull \/ lastLine.line = <<>> THEN FALSE
        ELSE RegexTest(<<"^">> \o PromiseOpen \o WsStar
                       \o escapeRegex(promise) \o WsStar \o PromiseClose
                       \o <<"$">>, lastLine.line, TRUE)

(***************************************************************************)
(* Outputs and promises the two detectors are called with.                 *)
(***************************************************************************)
\* most lines of an output
MaxLines == 3

\* a promise text, the same text in the other letter case, and another text;
\* the second promise has characters that are special in a pattern, and its
\* other text is matched by the promise read as a pattern
PromiseTexts ==
    << [text |-> <<"C","O","M","P","L","E","T","E">>, swapped |-> <<"c","o",
      "m","p","l","e","t","e">>, wrong |-> <<"W","R","O","N","G">>],
       [text |-> <<"O","k",".","+">>, swapped |-> <<"o","K",".",
      "+">>, wrong |-> <<"O","k","a","y">>] >>

\* the pieces an output is made of, for the promise p
Pieces(p) ==
    LET T == PromiseTexts[p]
    IN  << PromiseOpen \o T.text \o PromiseClose,
           <<"<","P","R","O","M","I","S","E",">">> \o T.swapped \o <<"<","/",
      "P","r","o","m","i","s","e",">">>,
           PromiseOpen \o <<" ","\t">> \o T.text \o <<" ">> \o PromiseClose,
           PromiseOpen \o <<"\n">> \o T.text \o PromiseClose,
           PromiseOpen \o T.wrong \o PromiseClose,
           <<"p","r","o","m","i","s","e",">">> \o T.text \o <<"<","/","p","r",
      "o","m","i","s","e">>,
           <<"ESC","[","1","m","w","o","r","k","i","n","g","ESC","[","0",";",
      "3","2","m","\r">>,
           <<" ","ESC","[","0","m","\t">>,
           <<"o","k"," ">> \o PromiseOpen \o T.text \o PromiseClose \o <<" ",
      "b","y","e">>,
           PromiseOpen \o <<"ESC","[","1","m">> \o T.text \o <<"ESC","[","0",
      "m">> \o PromiseClose >>

\* what a piece is: the tag on a line of its own ("tag"), the tag with a
\* line break inside ("split"), the tag with colour codes inside
\* ("styled"), a line that is blank once colour codes are stripped and it
\* is trimmed ("blank"), any other line ("text")
PieceKind ==
    <<"tag", "tag", "tag", "split", "text", "text", "text", "blank", "text",
      "styled">>

PieceIds == 1..Len(PieceKind)

CanonicalTag == 1
CaseVariants == {2}
SpaceVariants == {3}
LineBreakVariants == {4}
NonTags == {5, 6, 7, 8}

RECURSIVE JoinLines(_)
JoinLines(lines) ==
    IF lines = <<>> THEN <<>>
    ELSE IF Len(lines) = 1 THEN lines[1]
    ELSE lines[1] \o <<"\n">> \o JoinLines(Tail(lines))

\* the output made of the pieces ids, one per line
Output(ids, p) == JoinLines([i \in 1..Len(ids) |-> Pieces(p)[ids[i]]])

\* the detectors are about to be called
DetectCall ==
    \E n \in 1..MaxLines : \E ids \in [1..n -> PieceIds] :
        \E p \in 1..Len(PromiseTexts) :
            call = [fn |-> "detect", args |-> [ids |-> ids, promise |-> p],
                    done |-> FALSE, result |-> <<>>]

\* both detectors are called on the same output and promise
RunDetect ==
    /\ call.fn = "detect" /\ ~call.done
    /\ LET output  == Output(call.args.ids, call.args.promise)
           promise == PromiseTexts[call.args.promise].text
       IN  call' = [call EXCEPT
                      !.done = TRUE,
                      !.result =
                          [terminal |-> checkTerminalPromise(output, promise),
                           loose |-> checkCompletion(output, promise)]]
    /\ UNCHANGED <<file, canUnlink, maxIterations, autoCommit, drv, sp>>

(***************************************************************************)
(* tasksMarkdownAllComplete of src/completion.ts.                          *)
(***************************************************************************)
\* the markers of a task line
TaskMarkers == {" ", "x", "X", "/"}

\* the atoms of /^\s*-\s+\[([ xX\/])\]\s+/
TaskLinePattern ==
    << [kind |-> "bol", ch |-> "^", quant |-> "1"],
       [kind |-> "space", ch |-> " ", quant |-> "*"],
       [kind |-> "lit", ch |-> "-", quant |-> "1"],
       [kind |-> "space", ch |-> " ", quant |-> "+"],
       [kind |-> "lit", ch |-> "[", quant |-> "1"],
       [kind |-> "set", ch |-> TaskMarkers, quant |-> "1"],
       [kind |-> "lit", ch |-> "]", quant |-> "1"],
       [kind |-> "space", ch |-> " ", quant |-> "+"] >>

\* line.match(pattern): null, or the text of group 1.  The pattern allows
\* only whitespace and "-" before its "[", so group 1 is the character
\* after the first "[" of the line.
TaskMatch(line) ==
    IF MatchAt(TaskLinePattern, 1, line, 1, FALSE)
    THEN LET open == CHOOSE i \in 1..Len(line) :
                         line[i] = "[" /\ \A j \in 1..(i - 1) : line[j] # "["
         IN  [isNull |-> FALSE, group1 |-> line[open + 1]]
    ELSE [isNull |-> TRUE, group1 |-> ""]

\* the loop over the lines, from line i on
RECURSIVE ScanTasks(_, _, _)
ScanTasks(lines, i, sawTask) ==
    IF i > Len(lines) THEN sawTask
    ELSE LET match == TaskMatch(lines[i])
         IN  IF match.isNull THEN ScanTasks(lines, i + 1, sawTask)
             ELSE IF FoldCase(match.group1) # "x" THEN FALSE
             ELSE ScanTasks(lines, i + 1, TRUE)

tasksMarkdownAllCompleteVacuous(tasksMarkdown) ==
    ScanTasks(SplitLines(tasksMarkdown), 1, TRUE)

tasksMarkdownAllComplete(tasksMarkdown) ==
    ScanTasks(SplitLines(tasksMarkdown), 1, FALSE)

\* most lines of a task document
MaxTaskLines == 2

\* the lines a task document is made of
TaskPieces ==
    << <<"-"," ","[","x","]"," ","d","o","n","e">>,
       <<" "," ","-"," ","[","X","]"," ","D","o","n","e","\r">>,
       <<"-"," ","["," ","]"," ","t","o","d","o">>,
       <<"-","\t","[","/","]"," ","d","o","i","n","g">>,
       <<"p","l","a","i","n"," ","t","e","x","t">>,
       <<>>,
       <<"-"," ","[","x","]">>,
       <<"-","["," ","]"," ","x">>,
       <<"-"," ","[","y","]"," ","z">>,
       <<"*"," ","["," ","]"," ","s","t","a","r">> >>

TaskDocument(ids) == JoinLines([i \in 1..Len(ids) |-> TaskPieces[ids[i]]])

\* tasksMarkdownAllComplete is about to be called
TaskCall ==
    \E n \in 0..MaxTaskLines : \E ids \in [1..n -> 1..Len(TaskPieces)] :
        call = [fn |-> "tasks", args |-> [ids |-> ids], done |-> FALSE,
                result |-> <<>>]

RunTasks ==
    /\ call.fn = "tasks" /\ ~call.done
    /\ call' = [call EXCEPT
                  !.done = TRUE,
                  !.result =
                      tasksMarkdownAllComplete(TaskDocument(call.args.ids))]
    /\ UNCHANGED <<file, canUnlink, maxIterations, autoCommit, drv, sp>>

(***************************************************************************)
(* formatDuration and formatToolSummary of ralph.ts.                       *)
(***************************************************************************)
\* text.padStart(targetLength, padString) for a padString of one character
PadStart(text, targetLength, padString) ==
    IF Len(text) >= targetLength THEN text
    ELSE [i \in 1..(targetLength - Len(text)) |-> padString] \o text

Max(a, b) == IF a >= b THEN a ELSE b

formatDurationNoPad(ms) ==
    LET totalSeconds == Max(0, ms \div 1000)
        hours        == totalSeconds \div 3600
        minutes      == (totalSeconds % 3600) \div 60
        seconds      == totalSeconds % 60
    IN  IF hours > 0
        THEN NumberText(hours) \o <<":">> \o NumberText(minutes)
             \o <<":">> \o NumberText(seconds)
        ELSE NumberText(minutes) \o <<":">> \o NumberText(seconds)

formatDuration(ms) ==
    LET totalSeconds == Max(0, ms \div 1000)
        hours        == totalSeconds \div 3600
        minutes      == (totalSeconds % 3600) \div 60
        seconds      == totalSeconds % 60
    IN  IF hours > 0
        THEN NumberText(hours) \o <<":">>
             \o PadStart(NumberText(minutes), 2, "0") \o <<":">>
             \o PadStart(NumberText(seconds), 2, "0")
        ELSE NumberText(minutes) \o <<":">>
             \o PadStart(NumberText(seconds), 2, "0")

\* most hours of a duration
MaxHours == 2

MinuteValues == {0, 1, 9, 10, 59}
SecondValues == {0, 1, 9, 10, 45, 59}
MillisecondValues == {0, 999}

\* the millisecond values formatDuration is called with
DurationInputs ==
    {1000 * (3600 * h + 60 * m + s) + r :
        h \in 0..MaxHours, m \in MinuteValues, s \in SecondValues,
        r \in MillisecondValues}
    \cup {-500}

\* formatDuration is about to be called
DurationCall ==
    \E ms \in DurationInputs :
        call = [fn |-> "duration", args |-> [ms |-> ms], done |-> FALSE,
                result |-> <<>>]

RunDuration ==
    /\ call.fn = "duration" /\ ~call.done
    /\ call' = [call EXCEPT !.done = TRUE,
                            !.result = formatDuration(call.args.ms)]
    /\ UNCHANGED <<file, canUnlink, maxIterations, autoCommit, drv, sp>>

\* Array.prototype.sort with (a, b) => b[1] - a[1]: by count, largest
\* first; the sort is stable, entries of equal count keep their order
SortByCount(entries) ==
    LET rank(i) ==
            Cardinality({j \in 1..Len(entries) :
                            \/ entries[j].count > entries[i].count
                            \/ entries[j].count = entries[i].count /\ j < i})
            + 1
    IN  [r \in 1..Len(entries) |->
            entries[CHOOSE i \in 1..Len(entries) : rank(i) = r]]

\* Array.prototype.slice(0, end) for end >= 0
SliceTo(seq, end) == SubSeq(seq, 1, IF end < Len(seq) THEN end ELSE Len(seq))

\* parts.join(separator)
RECURSIVE Join(_, _)
Join(parts, separator) ==
    IF parts = <<>> THEN <<>>
    ELSE IF Len(parts) = 1 THEN parts[1]
    ELSE parts[1] \o separator \o Join(Tail(parts), separator)

\* "BULLET" stands for the one character U+2022
Bullet == <<" ","BULLET"," ">>

\* the text of one tool and its count
NameCount(entry) == entry.name \o <<" ">> \o NumberText(entry.count)

\* the text that stands for the tools not shown
MoreText(remaining) == <<"+">> \o NumberText(remaining) \o <<" ","m","o","r",
      "e">>

\* toolCounts is the list of the entries of the Map, in insertion order
formatToolSummaryUnsorted(toolCounts, maxItems) ==
    IF Len(toolCounts) = 0 THEN <<>>
    ELSE LET entries   == toolCounts
             shown     == SliceTo(entries, maxItems)
             remaining == Len(entries) - Len(shown)
             parts     == [i \in 1..Len(shown) |-> NameCount(shown[i])]
         IN  Join(IF remaining > 0
                  THEN Append(parts, MoreText(remaining)) ELSE parts, Bullet)

formatToolSummary(toolCounts, maxItems) ==
    IF Len(toolCounts) = 0 THEN <<>>
    ELSE LET entries   == SortByCount(toolCounts)
             shown     == SliceTo(entries, maxItems)
             remaining == Len(entries) - Len(shown)
             parts     == [i \in 1..Len(shown) |-> NameCount(shown[i])]
         IN  Join(IF remaining > 0
                  THEN Append(parts, MoreText(remaining)) ELSE parts, Bullet)

\* largest maxItems tried
MaxItems == 3

ToolNames == {<<"r","e","a","d">>, <<"b","a","s","h">>, <<"e","d","i","t","-",
      "2">>}
CountValues == {1, 2, 12}

\* the Maps of tool counts: every order of insertion of every set of tools
ToolCountMaps ==
    {m \in UNION {[1..k -> [name : ToolNames, count : CountValues]] :
                     k \in 0..Cardinality(ToolNames)} :
        \A i, j \in 1..Len(m) : i # j => m[i].name # m[j].name}

\* formatToolSummary is about to be called
SummaryCall ==
    \E m \in ToolCountMaps, n \in 0..MaxItems :
        call = [fn |-> "summary", args |-> [toolCounts |-> m, maxItems |-> n],
                done |-> FALSE, result |-> <<>>]

RunSummary ==
    /\ call.fn = "summary" /\ ~call.done
    /\ call' = [call EXCEPT
                  !.done = TRUE,
                  !.result = formatToolSummary(call.args.toolCounts,
                                               call.args.maxItems)]
    /\ UNCHANGED <<file, canUnlink, maxIterations, autoCommit, drv, sp>>

(***************************************************************************)
(* streamText of streamProcessOutput: one stream, read chunk by chunk.     *)
(* A chunk is a list of bytes.  A byte below 0x80 is written as its        *)
(* character; "C3" and "A9" are the two bytes of the character U+00E9.     *)
(***************************************************************************)
LeadByte == "C3"
ContinuationByte == "A9"

\* the decoder reads one byte: lead is the byte it holds back, "" if none
DecodeByte(lead, byte) ==
    LET fresh == IF byte = LeadByte THEN [out |-> <<>>, lead |-> byte]
                 ELSE IF byte = ContinuationByte
                 THEN [out |-> <<"U+FFFD">>, lead |-> ""]
                 ELSE [out |-> <<byte>>, lead |-> ""]
    IN  IF lead = "" THEN fresh
        ELSE IF byte = ContinuationByte
        THEN [out |-> <<"U+00E9">>, lead |-> ""]
        ELSE [out |-> <<"U+FFFD">> \o fresh.out, lead |-> fresh.lead]

\* decoder.decode(value, { stream: true }), from byte i of value on
RECURSIVE DecodeFrom(_, _, _)
DecodeFrom(lead, value, i) ==
    IF i > Len(value) THEN [out |-> <<>>, lead |-> lead]
    ELSE LET one  == DecodeByte(lead, value[i])
             rest == DecodeFrom(one.lead, value, i + 1)
         IN  [out |-> one.out \o rest.out, lead |-> rest.lead]

Decode(lead, value) == DecodeFrom(lead, value, 1)

\* decoder.decode(): a byte held back is an incomplete character
Flush(lead) == IF lead = "" THEN <<>> ELSE <<"U+FFFD">>

\* the local variables of one streamText call
NewReader == [lead |-> "", buffer |-> <<>>]

\* one pass of the loop with a chunk: the lines for handleLine and the text
\* for onText; this one splits each chunk on its own
ReadChunkNoCarry(rd, value) ==
    LET dec   == Decode(rd.lead, value)
        lines == SplitLines(dec.out)
    IN  IF Len(dec.out) > 0
        THEN [rd |-> [lead |-> dec.lead, buffer |-> lines[Len(lines)]],
              lines |-> SubSeq(lines, 1, Len(lines) - 1),
              text |-> dec.out]
        ELSE [rd |-> [lead |-> dec.lead, buffer |-> rd.buffer],
              lines |-> <<>>, text |-> <<>>]

\* one pass of the loop with a chunk: the lines for handleLine and the text
\* for onText
ReadChunk(rd, value) ==
    LET dec   == Decode(rd.lead, value)
        lines == SplitLines(rd.buffer \o dec.out)
    IN  IF Len(dec.out) > 0
        THEN [rd |-> [lead |-> dec.lead, buffer |-> lines[Len(lines)]],
              lines |-> SubSeq(lines, 1, Len(lines) - 1),
              text |-> dec.out]
        ELSE [rd |-> [lead |-> dec.lead, buffer |-> rd.buffer],
              lines |-> <<>>, text |-> <<>>]

\* after the loop: the decoder is flushed and a non-empty buffer is a line
ReadEnd(rd) ==
    LET flushed == Flush(rd.lead)
        buffer  == rd.buffer \o flushed
    IN  [rd |-> [lead |-> "", buffer |-> buffer],
         lines |-> IF Len(buffer) > 0 THEN <<buffer>> ELSE <<>>,
         text |-> flushed]

\* streamText on a stream that delivers chunks from chunk i on; handled is
\* the list of the lines given to handleLine and text what onText got
RECURSIVE StreamTextFrom(_, _, _, _, _)
StreamTextFrom(chunks, i, rd, handled, text) ==
    IF i > Len(chunks)
    THEN LET end == ReadEnd(rd)
         IN  [handled |-> handled \o end.lines, text |-> text \o end.text]
    ELSE LET step == ReadChunk(rd, chunks[i])
         IN  StreamTextFrom(chunks, i + 1, step.rd, handled \o step.lines,
                            text \o step.text)

streamText(chunks) == StreamTextFrom(chunks, 1, NewReader, <<>>, <<>>)

\* most bytes of a stream
MaxBytes == 4

ByteValues == {"a", "\r", "\n", LeadByte, ContinuationByte}

\* the chunks of bytes cut after the positions in cuts
Chunks(bytes, cuts) ==
    LET ends == SelectSeq(Positions(bytes),
                          LAMBDA k : k \in cuts \/ k = Len(bytes))
    IN  [k \in 1..Len(ends) |->
            SubSeq(bytes, IF k = 1 THEN 1 ELSE ends[k - 1] + 1, ends[k])]

\* streamText is about to be called on a stream of up to MaxBytes bytes,
\* cut into chunks in any way
StreamTextCall ==
    \E n \in 0..MaxBytes : \E b \in [1..n -> ByteValues] :
        \E c \in SUBSET (1..(n - 1)) :
            call = [fn |-> "streamText", args |-> [bytes |-> b, cuts |-> c],
                    done |-> FALSE, result |-> <<>>]

RunStreamText ==
    /\ call.fn = "streamText" /\ ~call.done
    /\ call' = [call EXCEPT
                  !.done = TRUE,
                  !.result = streamText(Chunks(call.args.bytes,
                                               call.args.cuts))]
    /\ UNCHANGED <<file, canUnlink, maxIterations, autoCommit, drv, sp>>

(***************************************************************************)
(* streamProcessOutput: both streams of a child, the tool summary and the  *)
(* heartbeat timer.  Every job of the event loop is one step: a read that  *)
(* resolves, with all the lines it completes, or a callback of the timer.  *)
(***************************************************************************)
\* the options runRalphLoop passes
toolSummaryIntervalMs == 3000
heartbeatIntervalMs == 10000

\* maxItems of formatToolSummary when none is given
DefaultMaxItems == 6

\* Date.now() when streamProcessOutput is called, in ms; the clock of a
\* computer is far more than an interval past its zero
StartTime == 1000000

\* the clock is followed for this many ms
MaxTime == 20000

\* iterationStart: the driver reads the clock just before it spawns
iterationStart == StartTime

Streams == {"stdout", "stderr"}

Other(s) == IF s = "stdout" THEN "stderr" ELSE "stdout"

\* the characters of [A-Za-z0-9_-]
IsTokenChar(c) ==
    \/ \E i \in 1..26 : UpperLetters[i] = c \/ LowerLetters[i] = c
    \/ IsDigit(c)
    \/ c \in {"_", "-"}

\* stripAnsi(line).match(/^\|\s{2}([A-Za-z0-9_-]+)/): null, or group 1
ToolMatch(line) ==
    LET l == stripAnsi(line)
    IN  IF /\ Len(l) >= 4
           /\ l[1] = "|" /\ l[2] \in WhiteSpace /\ l[3] \in WhiteSpace
           /\ IsTokenChar(l[4])
        THEN LET stops == {j \in 5..Len(l) : ~IsTokenChar(l[j])}
                 end   == IF stops = {} THEN Len(l)
                          ELSE (CHOOSE j \in stops :
                                    \A k \in stops : j <= k) - 1
             IN  [isNull |-> FALSE, group1 |-> SubSeq(l, 4, end)]
        ELSE [isNull |-> TRUE, group1 |-> <<>>]

\* toolCounts.set(tool, (toolCounts.get(tool) ?? 0) + 1)
CountTool(toolCounts, tool) ==
    IF \E i \in 1..Len(toolCounts) : toolCounts[i].name = tool
    THEN [i \in 1..Len(toolCounts) |->
            IF toolCounts[i].name = tool
            THEN [toolCounts[i] EXCEPT !.count = @ + 1] ELSE toolCounts[i]]
    ELSE Append(toolCounts, [name |-> tool, count |-> 1])

\* console.log and console.error
Printed(s, channel, kind, text) ==
    [s EXCEPT !.console = Append(@, [channel |-> channel, kind |-> kind,
                                     text |-> text])]

\* the summary is printed whatever the time of the last one
maybePrintToolSummaryNoLimit(s, force) ==
    IF ~s.compactTools \/ Len(s.toolCounts) = 0 THEN s
    ELSE LET summary == formatToolSummary(s.toolCounts, DefaultMaxItems)
         IN  IF summary # <<>>
             THEN [Printed(s, "log",
                           IF force THEN "forcedSummary" ELSE "summary",
                           <<"|"," ","T","o","o","l","s"," "," "," ",
                                   " ">> \o summary)
                      EXCEPT !.lastPrintedAt = s.now,
                             !.lastToolSummaryAt = s.now]
             ELSE s

maybePrintToolSummary(s, force) ==
    IF ~s.compactTools \/ Len(s.toolCounts) = 0 THEN s
    ELSE IF ~force /\ s.now - s.lastToolSummaryAt < toolSummaryIntervalMs
    THEN s
    ELSE LET summary == formatToolSummary(s.toolCounts, DefaultMaxItems)
         IN  IF summary # <<>>
             THEN [Printed(s, "log",
                           IF force THEN "forcedSummary" ELSE "summary",
                           <<"|"," ","T","o","o","l","s"," "," "," ",
                                   " ">> \o summary)
                      EXCEPT !.lastPrintedAt = s.now,
                             !.lastToolSummaryAt = s.now]
             ELSE s

\* handled lists the calls of handleLine so far
handleLine(s, line, isError) ==
    LET s1    == [s EXCEPT !.lastActivityAt = s.now,
                           !.handled = Append(@, [line |-> line,
                                                  isError |-> isError])]
        match == ToolMatch(line)
    IN  IF s.compactTools /\ ~match.isNull
        THEN maybePrintToolSummary(
                 [s1 EXCEPT !.toolCounts = CountTool(@, match.group1)], FALSE)
        ELSE IF Len(line) = 0
        THEN [Printed(s1, "log", "line", <<>>) EXCEPT !.lastPrintedAt = s.now]
        ELSE [Printed(s1, IF isError THEN "error" ELSE "log", "line", line)
                 EXCEPT !.lastPrintedAt = s.now]

\* for (const line of lines) handleLine(line, isError), from line i on
RECURSIVE HandleLines(_, _, _, _)
HandleLines(s, lines, i, isError) ==
    IF i > Len(lines) THEN s
    ELSE HandleLines(handleLine(s, lines[i], isError), lines, i + 1, isError)

\* both callbacks add to the text of stdout
OnTextOneBuffer(s, stream, chunk) == [s EXCEPT !.stdoutText = @ \o chunk]

\* the onText callbacks: chunk => { stdoutText += chunk } and its twin
OnText(s, stream, chunk) ==
    IF stream = "stdout" THEN [s EXCEPT !.stdoutText = @ \o chunk]
    ELSE [s EXCEPT !.stderrText = @ \o chunk]

\* what a pass of the loop of streamText, or its end, does to the run
Deliver(s, stream, step) ==
    HandleLines(IF Len(step.text) > 0 THEN OnText(s, stream, step.text)
                ELSE s,
                step.lines, 1, stream = "stderr")

\* the finally block
ClearInterval(s) == [s EXCEPT !.timer = FALSE]

\* the exception leaves streamProcessOutput past a missing finally block
ThrowNoFinally(s) == [s EXCEPT !.phase = "thrown"]

\* Promise.all rejects: the finally block runs and the exception leaves
\* streamProcessOutput
Throw(s) == [ClearInterval(s) EXCEPT !.phase = "thrown"]

\* Promise.all resolves: the finally block, the forced summary, the return
Return(s) ==
    LET s1 == ClearInterval(s)
        s2 == IF s1.compactTools THEN maybePrintToolSummary(s1, TRUE) ELSE s1
    IN  [s2 EXCEPT !.phase = "returned"]

\* the chunks the child writes, as the reads deliver them
StdoutChunkings ==
    { << <<"|"," "," ","r","e","a","d","\n">>, <<"h","i","\r">>, <<"\n","|",
            " "," ","b","a">>, <<"s","h","\n","|"," "," ","r","e","a","d",
            "\n">> >>,
      << <<"d","o","n","e">> >>,
      << <<"o","k","\n","<","p","r","o","m","i","s","e",">","C","O","M">>,
         <<"P","L","E","T","E","<","/","p","r","o","m","i","s","e",">",
           "\n">> >> }

StderrChunkings ==
    { << >>,
      << <<"|"," "," ","g","r","e","p","\n","w","a">>, <<"r","n","\n">> >>,
      << <<"e","r","r","\n","\n","|"," "," ","b","a","s","h">> >> }

\* streamProcessOutput has run up to its await; given keeps the chunks the
\* two streams are going to deliver
StartStream(compactTools, out, err) ==
    [phase |-> "streaming",
     compactTools |-> compactTools,
     now |-> StartTime,
     timer |-> TRUE,
     due |-> StartTime + heartbeatIntervalMs,
     beats |-> 0,
     lastPrintedAt |-> StartTime,
     lastActivityAt |-> StartTime,
     lastToolSummaryAt |-> 0,
     toolCounts |-> <<>>,
     stdoutText |-> <<>>,
     stderrText |-> <<>>,
     console |-> <<>>,
     handled |-> <<>>,
     given |-> [stdout |-> out, stderr |-> err],
     rd |-> [stdout |-> NewReader, stderr |-> NewReader],
     todo |-> [stdout |-> out, stderr |-> err],
     status |-> [stdout |-> "reading", stderr |-> "reading"]]

Others == <<file, canUnlink, maxIterations, autoCommit, drv, call>>

\* reader.read() of stream resolves with a chunk
ReadData(stream) ==
    /\ sp.phase \in {"streaming", "thrown"}
    /\ sp.status[stream] = "reading"
    /\ sp.todo[stream] # <<>>
    /\ LET step == ReadChunk(sp.rd[stream], Head(sp.todo[stream]))
           s1   == [sp EXCEPT !.rd[stream] = step.rd,
                              !.todo[stream] = Tail(@)]
       IN  sp' = Deliver(s1, stream, step)
    /\ UNCHANGED Others

\* reader.read() of stream resolves with done: streamText returns, and
\* with it Promise.all when the other streamText has returned
ReadDone(stream) ==
    /\ sp.phase \in {"streaming", "thrown"}
    /\ sp.status[stream] = "reading"
    /\ sp.todo[stream] = <<>>
    /\ LET step == ReadEnd(sp.rd[stream])
           s1   == [sp EXCEPT !.rd[stream] = step.rd,
                              !.status[stream] = "done"]
           s2   == Deliver(s1, stream, step)
       IN  sp' = IF s2.phase = "streaming" /\ s2.status[Other(stream)] = "done"
                 THEN Return(s2) ELSE s2
    /\ UNCHANGED Others

\* reader.read() of stream rejects: streamText throws, and Promise.all
\* rejects unless it already has
ReadFail(stream) ==
    /\ sp.phase \in {"streaming", "thrown"}
    /\ sp.status[stream] = "reading"
    /\ LET s1 == [sp EXCEPT !.status[stream] = "failed"]
       IN  sp' = IF s1.phase = "streaming" THEN Throw(s1) ELSE s1
    /\ UNCHANGED Others

HourglassText == <<"U+23F3">> \o <<" ","w","o","r","k","i","n","g",".",".",
        "."," ","e","l","a","p","s","e","d"," ">>
MiddleDotText == <<" ", "U+00B7">> \o <<" ","l","a","s","t"," ","a","c","t",
        "i","v","i","t","y"," ">>

\* the callback prints only when more than the interval has passed
HeartbeatStrict ==
    /\ sp.phase # "off"
    /\ sp.timer
    /\ sp.now >= sp.due
    /\ LET now == sp.now
           s1  == [sp EXCEPT !.due = @ + heartbeatIntervalMs,
                             !.beats = @ + 1]
       IN  sp' = IF now - sp.lastPrintedAt > heartbeatIntervalMs
                 THEN LET elapsed       == formatDuration(now - iterationStart)
                          sinceActivity ==
                              formatDuration(now - sp.lastActivityAt)
                      IN  [Printed(s1, "log", "heartbeat",
                                   HourglassText \o elapsed \o MiddleDotText
                                   \o sinceActivity \o <<" ","a","g","o">>)
                              EXCEPT !.lastPrintedAt = now]
                 ELSE s1
    /\ UNCHANGED Others

\* the callback of setInterval
Heartbeat ==
    /\ sp.phase # "off"
    /\ sp.timer
    /\ sp.now >= sp.due
    /\ LET now == sp.now
           s1  == [sp EXCEPT !.due = @ + heartbeatIntervalMs,
                             !.beats = @ + 1]
       IN  sp' = IF now - sp.lastPrintedAt >= heartbeatIntervalMs
                 THEN LET elapsed       == formatDuration(now - iterationStart)
                          sinceActivity ==
                              formatDuration(now - sp.lastActivityAt)
                      IN  [Printed(s1, "log", "heartbeat",
                                   HourglassText \o elapsed \o MiddleDotText
                                   \o sinceActivity \o <<" ","a","g","o">>)
                              EXCEPT !.lastPrintedAt = now]
                 ELSE s1
    /\ UNCHANGED Others

\* time passes by
TickSteps == {3000, heartbeatIntervalMs}

\* time passes; a callback of the timer runs when it is due, not later
Tick ==
    /\ sp.phase # "off"
    /\ \E dt \in TickSteps \cup (IF sp.timer THEN {sp.due - sp.now} ELSE {}) :
          /\ dt > 0
          /\ sp.now + dt <= StartTime + MaxTime
          /\ sp.timer => sp.now + dt <= sp.due
          /\ sp' = [sp EXCEPT !.now = @ + dt]
    /\ UNCHANGED Others

InitStream ==
    /\ file = Absent
    /\ canUnlink = TRUE
    /\ maxIterations = 0
    /\ autoCommit = FALSE
    /\ drv = [d \in Drivers |-> NewDriver("off")]
    /\ call = NoCall
    /\ \E compactTools \in BOOLEAN, out \in StdoutChunkings,
          err \in StderrChunkings :
          sp = StartStream(compactTools, out, err)

NextStream ==
    \/ \E stream \in Streams :
          ReadData(stream) \/ ReadDone(stream) \/ ReadFail(stream)
    \/ Heartbeat
    \/ Tick

SpecStream == InitStream /\ [][NextStream]_vars

(***************************************************************************)
(* The buffered mode of an iteration: both streams are read to their end   *)
(* and the tools are counted afterwards.                                   *)
(***************************************************************************)
\* the chunks of a stream put together
RECURSIVE Concat(_)
Concat(chunks) ==
    IF chunks = <<>> THEN <<>> ELSE Head(chunks) \o Concat(Tail(chunks))

\* new Response(stream).text(): the bytes of the whole stream, decoded
ResponseText(chunks) ==
    LET dec == Decode("", Concat(chunks))
    IN  dec.out \o Flush(dec.lead)

\* for (const line of lines) { ... counts.set(...) }, from line i on
RECURSIVE CollectFrom(_, _, _)
CollectFrom(counts, lines, i) ==
    IF i > Len(lines) THEN counts
    ELSE LET match == ToolMatch(lines[i])
         IN  CollectFrom(IF match.isNull THEN counts
                         ELSE CountTool(counts, match.group1),
                         lines, i + 1)

collectToolSummaryFromText(text) == CollectFrom(<<>>, SplitLines(text), 1)

\* the else branch of if (streamOutput): result, stderr and toolCounts
BufferedOutput(out, err) ==
    LET result == ResponseText(out)
        stderr == ResponseText(err)
    IN  [stdoutText |-> result, stderrText |-> stderr,
         toolCounts |->
             collectToolSummaryFromText(result \o <<"\n">> \o stderr)]

\* what an iteration does with its output once the child has exited with
\* code: the driver after AfterExit, the state file left aside
IterationOutcome(result, stderr, code) ==
    LET r == [NewDriver("awaitExit") EXCEPT
                 !.state = FreshState,
                 !.children = <<[alive |-> FALSE, code |-> code]>>,
                 !.currentProc = 1,
                 !.result = result,
                 !.stderr = stderr]
    IN  AfterExit(r, Json(FreshState), TRUE, TRUE).d

(***************************************************************************)
(* The helper functions called on their own.                               *)
(***************************************************************************)
InitHelpers ==
    /\ file = Absent
    /\ canUnlink = TRUE
    /\ maxIterations = 0
    /\ autoCommit = FALSE
    /\ drv = [d \in Drivers |-> NewDriver("off")]
    /\ \/ DetectCall
       \/ TaskCall
       \/ DurationCall
       \/ SummaryCall
       \/ StreamTextCall
    /\ sp = NoStream

NextHelpers ==
    RunDetect \/ RunTasks \/ RunDuration \/ RunSummary \/ RunStreamText

SpecHelpers == InitHelpers /\ [][NextHelpers]_vars

(***************************************************************************)
(* Properties of the detectors (SpecHelpers).                              *)
(***************************************************************************)
Detected == call.fn = "detect" /\ call.done

\* the output made of all pieces of the call but the last
Body == Output(SubSeq(call.args.ids, 1, Len(call.args.ids) - 1),
               call.args.promise)

\* C12: whenever the output is a body that does not contain the promise's
\* tag, a line break and the promise's tag, the anchored detector
\* checkTerminalPromise returns true.
TrailingTagAccepted ==
    (/\ Detected
     /\ Len(call.args.ids) >= 2
     /\ call.args.ids[Len(call.args.ids)] = CanonicalTag
     /\ ~Includes(Body, Pieces(call.args.promise)[CanonicalTag]))
        => call.result.terminal

\* C12 witness: the tag after a body of two lines, the first one text
TrailingTagReached ==
    /\ Detected
    /\ Len(call.args.ids) = 3
    /\ call.args.ids[3] = CanonicalTag
    /\ PieceKind[call.args.ids[1]] = "text"
    /\ ~Includes(Body, Pieces(call.args.promise)[CanonicalTag])
    /\ call.result.terminal

KindAt(i) == PieceKind[call.args.ids[i]]

\* C13 as stated: whenever a line that is the promise tag is followed by a
\* later non-empty line that is not the tag, the anchored detector returns
\* false and the loose detector returns true.
TagThenTextRejected ==
    (/\ Detected
     /\ \E i, j \in 1..Len(call.args.ids) :
            i < j /\ KindAt(i) = "tag" /\ KindAt(j) = "text")
        => ~call.result.terminal /\ call.result.loose

\* the last piece of the call that is not blank, 0 if all are
LastNonBlank ==
    LET S == {i \in 1..Len(call.args.ids) : KindAt(i) # "blank"}
    IN  IF S = {} THEN 0 ELSE CHOOSE i \in S : \A j \in S : i >= j

\* C13 amended: whenever a line that is the promise tag is followed by a
\* later non-empty line and the last non-empty line of the output is not
\* the tag, the anchored detector returns false and the loose detector
\* returns true.
TagNotLastRejected ==
    (/\ Detected
     /\ \E i \in 1..Len(call.args.ids) : KindAt(i) = "tag" /\ i < LastNonBlank
     /\ KindAt(LastNonBlank) \in {"text", "split"})
        => ~call.result.terminal /\ call.result.loose

\* C13 witness: the tag, then a line of text, then a blank line
TagNotLastReached ==
    /\ Detected
    /\ Len(call.args.ids) = 3
    /\ KindAt(1) = "tag" /\ KindAt(2) = "text" /\ KindAt(3) = "blank"
    /\ ~call.result.terminal /\ call.result.loose

\* the results of both detectors when piece i of the call is replaced by
\* the promise's tag as it is written
WithCanonical(i) ==
    LET output  == Output([call.args.ids EXCEPT ![i] = CanonicalTag],
                          call.args.promise)
        promise == PromiseTexts[call.args.promise].text
    IN  [terminal |-> checkTerminalPromise(output, promise),
         loose |-> checkCompletion(output, promise)]

\* outputs without any form of the tag match neither detector
NonTagsNeverMatch ==
    (Detected /\ \A i \in 1..Len(call.args.ids) : call.args.ids[i] \in NonTags)
        => ~call.result.terminal /\ ~call.result.loose

\* C14 as stated: the results of both detectors are unchanged when a tag
\* is written in another letter case or with whitespace between the tags
\* and the promise text; a tag with another inner text or without its
\* angle brackets never matches.
TagTolerance ==
    /\ Detected =>
         \A i \in 1..Len(call.args.ids) :
            call.args.ids[i] \in
                    CaseVariants \cup SpaceVariants \cup LineBreakVariants
                => call.result = WithCanonical(i)
    /\ NonTagsNeverMatch

\* C14 amended: as stated, except that for the anchored detector the
\* whitespace between the tags and the promise text has no line break.
TagToleranceOnOneLine ==
    /\ Detected =>
         \A i \in 1..Len(call.args.ids) :
            /\ call.args.ids[i] \in CaseVariants \cup SpaceVariants
                  => call.result = WithCanonical(i)
            /\ call.args.ids[i] \in LineBreakVariants
                  => call.result.loose = WithCanonical(i).loose
    /\ NonTagsNeverMatch

\* C14 witness: the tags in upper case around the promise in the other
\* case, after a line of text, match both detectors
TagToleranceReached ==
    /\ Detected
    /\ Len(call.args.ids) = 2
    /\ KindAt(1) = "text"
    /\ call.args.ids[2] \in CaseVariants
    /\ call.result.terminal /\ call.result.loose

(***************************************************************************)
(* Properties of tasksMarkdownAllComplete (SpecHelpers).                   *)
(***************************************************************************)
\* line l is a task line: optional whitespace, "-", whitespace, "[", a
\* marker, "]", whitespace; a whitespace run before the dash has length a,
\* the one after it length b
TaskShape(l, a, b) ==
    /\ a + b + 5 <= Len(l)
    /\ \A i \in 1..a : l[i] \in WhiteSpace
    /\ l[a + 1] = "-"
    /\ \A i \in (a + 2)..(a + 1 + b) : l[i] \in WhiteSpace
    /\ l[a + b + 2] = "["
    /\ l[a + b + 3] \in TaskMarkers
    /\ l[a + b + 4] = "]"
    /\ l[a + b + 5] \in WhiteSpace

IsTaskLine(l) == \E a \in 0..Len(l), b \in 1..Len(l) : TaskShape(l, a, b)

\* the task line l is complete: its marker is x or X
IsCompleteTask(l) ==
    \E a \in 0..Len(l), b \in 1..Len(l) :
        TaskShape(l, a, b) /\ l[a + b + 3] \in {"x", "X"}

\* the lines of the document of the call
TaskLineOf(i) == TaskPieces[call.args.ids[i]]

\* C15: tasksMarkdownAllComplete returns true exactly when the document
\* has at least one task line and every task line has marker x or X; so it
\* returns false without task lines and when a task line has marker space
\* or "/".
TasksCompleteIff ==
    (call.fn = "tasks" /\ call.done)
        => (call.result <=>
              /\ \E i \in 1..Len(call.args.ids) : IsTaskLine(TaskLineOf(i))
              /\ \A i \in 1..Len(call.args.ids) :
                    IsTaskLine(TaskLineOf(i)) => IsCompleteTask(TaskLineOf(i)))

\* C15 witness: a document of two different task lines, both complete, has
\* been found complete
TasksCompleteReached ==
    /\ call.fn = "tasks" /\ call.done
    /\ Len(call.args.ids) = 2
    /\ IsCompleteTask(TaskLineOf(1)) /\ IsCompleteTask(TaskLineOf(2))
    /\ TaskLineOf(1) # TaskLineOf(2)
    /\ call.result

(***************************************************************************)
(* Properties of formatToolSummary and formatDuration (SpecHelpers).       *)
(***************************************************************************)
Summarised == call.fn = "summary" /\ call.done

Min(a, b) == IF a <= b THEN a ELSE b

\* pick lists Min(k, m) different entries of the Map of the call, tools of
\* highest count, in non-increasing order of count
TopPick(pick) ==
    LET map == call.args.toolCounts
    IN  /\ Len(pick) = Min(Len(map), call.args.maxItems)
        /\ \A i, j \in 1..Len(pick) : i < j =>
               /\ pick[i] # pick[j]
               /\ map[pick[i]].count >= map[pick[j]].count
        /\ \A i \in 1..Len(pick) : \A o \in 1..Len(map) :
               (\A j \in 1..Len(pick) : pick[j] # o)
                   => map[pick[i]].count >= map[o].count

\* the summary that shows the entries of pick
SummaryOf(pick) ==
    LET map   == call.args.toolCounts
        k     == Len(map)
        m     == call.args.maxItems
        pairs == [i \in 1..Len(pick) |-> NameCount(map[pick[i]])]
    IN  Join(IF k > m THEN Append(pairs, MoreText(k - m)) ELSE pairs, Bullet)

\* C16: the summary of k tools under maxItems m lists Min(k, m) pairs
\* "name count", tools of highest count in non-increasing order of count,
\* followed by "+K more" with K = k - m exactly when k > m; the summary of
\* the empty Map is the empty text.
SummaryListsTop ==
    Summarised =>
        /\ \E pick \in UNION {[1..n -> 1..Len(call.args.toolCounts)] :
                                 n \in 0..Len(call.args.toolCounts)} :
              TopPick(pick) /\ call.result = SummaryOf(pick)
        /\ Len(call.args.toolCounts) = 0 => call.result = <<>>

\* C16 witness: three tools, the one inserted last with the highest count,
\* summarised under maxItems 2
SummaryReached ==
    /\ Summarised
    /\ Len(call.args.toolCounts) = 3
    /\ call.args.maxItems = 2
    /\ call.args.toolCounts[3].count > call.args.toolCounts[1].count
    /\ call.args.toolCounts[1].count > call.args.toolCounts[2].count
    /\ call.result = SummaryOf(<<3, 1>>)

Formatted == call.fn = "duration" /\ call.done /\ call.args.ms >= 0

\* the value of a digit, and of a text of digits
DigitValue(c) == (CHOOSE i \in 1..10 : Digits[i] = c) - 1

RECURSIVE ParseNumber(_)
ParseNumber(text) ==
    IF text = <<>> THEN 0
    ELSE 10 * ParseNumber(SubSeq(text, 1, Len(text) - 1))
         + DigitValue(text[Len(text)])

\* the fields of the result of the call, which ":" separates
Fields ==
    LET text  == call.result
        colon == SelectSeq(Positions(text), LAMBDA k : text[k] = ":")
    IN  [k \in 1..(Len(colon) + 1) |->
            SubSeq(text, IF k = 1 THEN 1 ELSE colon[k - 1] + 1,
                         IF k > Len(colon) THEN Len(text) ELSE colon[k] - 1)]

\* text is a number as String writes it
IsPlainNumber(text) ==
    /\ Len(text) >= 1
    /\ \A i \in 1..Len(text) : IsDigit(text[i])
    /\ Len(text) > 1 => text[1] # "0"

\* text is a number below 60 written with two digits
IsPadded(text) ==
    /\ Len(text) = 2
    /\ IsDigit(text[1]) /\ IsDigit(text[2])
    /\ ParseNumber(text) <= 59

\* C17: the result for a non-negative millisecond value is M:SS when the
\* whole seconds make less than an hour and H:MM:SS otherwise, with SS and
\* MM of two digits and at most 59, and the fields add up to the value
\* truncated to whole seconds; 45000 gives 0:45 and 3661000 gives 1:01:01.
DurationFormat ==
    Formatted =>
        LET total == call.args.ms \div 1000
            f     == Fields
        IN  /\ total < 3600 =>
                  /\ Len(f) = 2
                  /\ IsPlainNumber(f[1]) /\ IsPadded(f[2])
                  /\ 60 * ParseNumber(f[1]) + ParseNumber(f[2]) = total
            /\ total >= 3600 =>
                  /\ Len(f) = 3
                  /\ IsPlainNumber(f[1]) /\ IsPadded(f[2]) /\ IsPadded(f[3])
                  /\ 3600 * ParseNumber(f[1]) + 60 * ParseNumber(f[2])
                         + ParseNumber(f[3]) = total
            /\ call.args.ms = 45000 => call.result = <<"0",":","4","5">>
            /\ call.args.ms = 3661000 => call.result = <<"1",":","0","1",":",
                    "0","1">>

\* C17 witness: 1 h 1 min 1 s and 999 ms has been formatted as 1:01:01
DurationReached ==
    /\ call.fn = "duration" /\ call.done
    /\ call.args.ms = 3661999
    /\ call.result = <<"1",":","0","1",":","0","1">>

(***************************************************************************)
(* The state store and a corrupt state file (Spec).                        *)
(***************************************************************************)
\* C18: loadState returns null for an absent and for an unparsable state
\* file; a driver started on a corrupt state file passes the lock check
\* and, unless its first saveState throws, overwrites the file with an
\* active record, which is the fresh record of iteration 1 whenever the
\* first child has been spawned.
CorruptStateIsNoState ==
    [][/\ loadState(Absent).isNull /\ loadState(Corrupt).isNull
       /\ (drv[1].pc = "start" /\ file = Corrupt /\ drv'[1] # drv[1])
             => drv'[1].pc = "init" /\ file' = file
       /\ (drv[1].pc = "init" /\ file = Corrupt /\ drv'[1] # drv[1]
           /\ drv'[1].outcome # "Fatal")
             => /\ file'.kind = "json"
                /\ file'.value.active
                /\ drv'[1].pc = "streaming"
                      => /\ file'.value = FreshState
                         /\ file'.value.iteration = 1
                         /\ Len(drv'[1].children) = 1]_vars

\* C18 witness: the driver has passed the lock check on a corrupt file
CorruptStatePassed == drv[1].pc = "init" /\ file = Corrupt

(***************************************************************************)
(* Properties of streamText (SpecHelpers).                                 *)
(***************************************************************************)
\* the text of the whole stream, decoded at once
WholeText ==
    LET dec == Decode("", call.args.bytes)
    IN  dec.out \o Flush(dec.lead)

\* seq without its last element when that is the empty text
DropFinalEmpty(seq) ==
    IF Len(seq) > 0 /\ seq[Len(seq)] = <<>>
    THEN SubSeq(seq, 1, Len(seq) - 1) ELSE seq

\* C20: however the bytes of a stream are cut into chunks, the lines given
\* to handleLine are the whole text split at CR?LF without a final empty
\* element, and the text given to onText is the whole text.
ChunkingIndependent ==
    (call.fn = "streamText" /\ call.done)
        => /\ call.result.handled = DropFinalEmpty(SplitLines(WholeText))
           /\ call.result.text = WholeText

\* C20 witness: CR and LF arrive in two chunks, the text after them is
\* delivered as the last line
CrLfSplitReached ==
    /\ call.fn = "streamText" /\ call.done
    /\ call.args.bytes = <<"a", "\r", "\n", "a">>
    /\ call.args.cuts = {2}
    /\ call.result.handled = << <<"a">>, <<"a">> >>

(***************************************************************************)
(* Properties of streamProcessOutput (SpecStream).                         *)
(***************************************************************************)
\* control has left streamProcessOutput
StreamEnded == sp.phase \in {"returned", "thrown"}

\* C19: once control has left streamProcessOutput, by its return or by an
\* exception from a read of either stream, the heartbeat timer is cleared
\* and no callback of it runs any more.
HeartbeatReleased ==
    /\ [](StreamEnded => ~sp.timer)
    /\ [][StreamEnded => sp'.beats = sp.beats]_vars

\* C19 witness: a read has thrown while the other stream was still being
\* read, and the time of the next callback has come
HeartbeatReleasedReached ==
    /\ sp.phase = "thrown"
    /\ \E stream \in Streams : sp.status[stream] = "reading"
    /\ ~sp.timer
    /\ sp.now >= sp.due

\* the text a stream is going to deliver, decoded at once: the two bytes
\* of U+00E9 are one character, a lead or continuation byte without its
\* partner is U+FFFD
GivenText(stream) ==
    LET bytes  == Concat(sp.given[stream])
        pair(i) == /\ i < Len(bytes) /\ bytes[i] = LeadByte
                   /\ bytes[i + 1] = ContinuationByte
        at     == SelectSeq(Positions(bytes), LAMBDA i : ~pair(i))
    IN  [k \in 1..Len(at) |->
            LET i == at[k]
            IN  IF bytes[i] = ContinuationByte
                THEN IF i > 1 /\ pair(i - 1) THEN "U+00E9" ELSE "U+FFFD"
                ELSE IF bytes[i] = LeadByte THEN "U+FFFD"
                ELSE bytes[i]]

\* the lines of the text a stream is going to deliver
GivenLines(stream) == DropFinalEmpty(SplitLines(GivenText(stream)))

\* the lines handleLine was called with for a stream, in the order of the
\* calls
HandledLines(stream) ==
    LET calls == SelectSeq(sp.handled,
                           LAMBDA h : h.isError = (stream = "stderr"))
    IN  [i \in 1..Len(calls) |-> calls[i].line]

IsPrefix(a, b) == Len(a) <= Len(b) /\ a = SubSeq(b, 1, Len(a))

\* a Map as the set of its entries, the order of insertion left out
Entries(toolCounts) == {toolCounts[i] : i \in 1..Len(toolCounts)}

\* the tool names of the lines of both streams that carry the marker
GivenTools ==
    LET lines == GivenLines("stdout") \o GivenLines("stderr")
        tools == SelectSeq(lines, LAMBDA l : ~ToolMatch(l).isNull)
    IN  [i \in 1..Len(tools) |-> ToolMatch(tools[i]).group1]

\* every tool of both streams with the number of lines that name it
GivenCounts ==
    LET tools == GivenTools
    IN  {[name |-> n,
          count |-> Cardinality({i \in 1..Len(tools) : tools[i] = n})] :
            n \in {tools[i] : i \in 1..Len(tools)}}

\* the Map after the lines of stdout and then those of stderr were counted
RECURSIVE CountedFrom(_, _, _)
CountedFrom(toolCounts, tools, i) ==
    IF i > Len(tools) THEN toolCounts
    ELSE CountedFrom(CountTool(toolCounts, tools[i]), tools, i + 1)

StdoutFirstCounts == CountedFrom(<<>>, GivenTools, 1)

CountedCalls ==
    SelectSeq(sp.handled,
              LAMBDA h : sp.compactTools /\ ~ToolMatch(h.line).isNull)

\* the other calls of handleLine
RawCalls ==
    SelectSeq(sp.handled,
              LAMBDA h : ~(sp.compactTools /\ ~ToolMatch(h.line).isNull))

\* the lines printed as they came
RawPrints == SelectSeq(sp.console, LAMBDA e : e.kind = "line")

\* every tool that was counted with the number of calls that counted it
CallCounts ==
    LET calls == CountedCalls
        tools == [i \in 1..Len(calls) |-> ToolMatch(calls[i].line).group1]
    IN  {[name |-> n,
          count |-> Cardinality({i \in 1..Len(tools) : tools[i] = n})] :
            n \in {tools[i] : i \in 1..Len(tools)}}

\* C22: a line with the tool marker handled in compact mode adds 1 to the
\* count of its tool and is not printed; every other line is printed once
\* as it is, a line of stderr on the error channel and a line of stdout on
\* the standard channel, and leaves the counts alone.
LineRouting ==
    LET raw    == RawCalls
        prints == RawPrints
    IN  /\ Len(prints) = Len(raw)
        /\ \A i \in 1..Len(raw) :
              /\ prints[i].text = raw[i].line
              /\ prints[i].channel = IF raw[i].isError THEN "error" ELSE "log"
        /\ Entries(sp.toolCounts) = CallCounts
        /\ Len(sp.toolCounts) = Cardinality(CallCounts)

\* the number of lines of a kind on the console of run s
PrintCount(s, kind) ==
    Cardinality({i \in 1..Len(s.console) : s.console[i].kind = kind})

\* C23: a step renders the tool summary without force at most once, and
\* only when at least toolSummaryIntervalMs have passed since the last
\* render, whose time lastToolSummaryAt keeps; the forced render is made
\* once, when streamProcessOutput returns in compact mode with a tool
\* counted, whatever the time of the last render; nothing is rendered when
\* compact mode is off or no tool is counted.
SummaryRateLimited ==
    /\ [][LET plain  == PrintCount(sp', "summary") - PrintCount(sp, "summary")
              forced == PrintCount(sp', "forcedSummary")
                            - PrintCount(sp, "forcedSummary")
          IN  /\ plain \in {0, 1}
              /\ plain = 1
                    => /\ sp'.now - sp.lastToolSummaryAt
                              >= toolSummaryIntervalMs
                       /\ sp'.lastToolSummaryAt = sp'.now
              /\ forced = 1 => sp'.lastToolSummaryAt = sp'.now
              /\ (plain = 0 /\ forced = 0)
                    => sp'.lastToolSummaryAt = sp.lastToolSummaryAt]_vars
    /\ [](PrintCount(sp, "forcedSummary")
              = IF sp.phase = "returned" /\ sp.compactTools
                   /\ Len(sp.toolCounts) > 0
                THEN 1 ELSE 0)
    /\ []((~sp.compactTools \/ Len(sp.toolCounts) = 0)
              => PrintCount(sp, "summary") + PrintCount(sp, "forcedSummary")
                    = 0)
    /\ [](sp.lastToolSummaryAt <= sp.now)

\* C23 witness: streamProcessOutput has returned before the clock moved:
\* the first tool line was rendered, the later ones were not, and the
\* forced render came in the same millisecond
ForcedRenderReached ==
    /\ sp.phase = "returned"
    /\ sp.now = StartTime
    /\ PrintCount(sp, "summary") = 1
    /\ PrintCount(sp, "forcedSummary") = 1
    /\ \E i \in 1..Len(sp.toolCounts) : sp.toolCounts[i].count >= 2

\* C24: a callback of the heartbeat timer prints its line if and only if
\* at least heartbeatIntervalMs have passed since lastPrintedAt, which is
\* the time of the last line printed, whatever its kind; the callback
\* changes lastPrintedAt, and only when it prints, and leaves the time of
\* the last activity, the texts of both streams and the tool counts alone.
HeartbeatEmission ==
    /\ [][sp'.beats = sp.beats + 1
             => LET emits == sp.now - sp.lastPrintedAt >= heartbeatIntervalMs
                IN  /\ sp'.now = sp.now
                    /\ [sp' EXCEPT !.beats = sp.beats, !.due = sp.due,
                                   !.console = sp.console,
                                   !.lastPrintedAt = sp.lastPrintedAt] = sp
                    /\ emits
                          => /\ Len(sp'.console) = Len(sp.console) + 1
                             /\ SubSeq(sp'.console, 1, Len(sp.console))
                                    = sp.console
                             /\ sp'.console[Len(sp'.console)].kind
                                    = "heartbeat"
                             /\ sp'.lastPrintedAt = sp.now
                    /\ ~emits
                          => /\ sp'.console = sp.console
                             /\ sp'.lastPrintedAt = sp.lastPrintedAt]_vars
    /\ [][sp'.beats = sp.beats
             => PrintCount(sp', "heartbeat") = PrintCount(sp, "heartbeat")]_vars
    /\ [][IF sp'.console # sp.console THEN sp'.lastPrintedAt = sp'.now
          ELSE sp'.lastPrintedAt = sp.lastPrintedAt]_vars

\* C24 witness: the first callback printed nothing because a line had been
\* printed less than an interval before, and the second printed the
\* heartbeat, an interval or more after the last line
HeartbeatReached ==
    /\ sp.beats = 2
    /\ PrintCount(sp, "heartbeat") = 1
    /\ sp.console[Len(sp.console)].kind = "heartbeat"
    /\ \E i \in 1..Len(sp.console) : sp.console[i].kind = "line"
    /\ sp.lastPrintedAt = StartTime + 2 * heartbeatIntervalMs

(***************************************************************************)
(* The iteration counter, the state record and the auto-commit (Spec).     *)
(***************************************************************************)
\* where runRalphLoop waits while an iteration with a child is under way
IterationPoints ==
    {"streaming", "awaitExit", "gitStatus", "gitAdd", "gitCommit"}

\* C25: an iteration that ends in the delay before the next one, by the
\* end of the try block or by the catch block, leaves the iteration number
\* one above the number its child was spawned with, which no step in
\* between changes; when a child is spawned the state file holds an active
\* record with the iteration number of the driver, which is 1 in the first
\* pass of the loop.
IterationCounter ==
    [][LET r  == drv[1]
           r2 == drv'[1]
       IN  /\ (r.pc \in IterationPoints /\ r2.pc \in {"sleep", "backoff"})
                 => r2.state.iteration = r.state.iteration + 1
           /\ (r.pc \in IterationPoints /\ r2.pc \in IterationPoints)
                 => r2.state.iteration = r.state.iteration
           /\ (r.pc # "streaming" /\ r2.pc = "streaming")
                 => /\ file'.kind = "json"
                    /\ file'.value.active
                    /\ file'.value.iteration = r2.state.iteration
                    /\ r.pc = "init" => r2.state.iteration = 1]_vars

\* the task text and the two completion tags of a rendered prompt
TaskText(fullPrompt) == fullPrompt[5]

CompletionTags(fullPrompt) == <<fullPrompt[11], fullPrompt[13]>>

\* a record that differs from the one built at loop start in nothing but
\* the iteration number
OnlyIterationChanged(st) ==
    /\ st.iteration >= 1
    /\ [st EXCEPT !.iteration = FreshState.iteration] = FreshState

\* C26: every record the driver writes to the state file, like its record
\* in memory, differs from the record built at loop start in the iteration
\* number only; a write after the first raises the iteration number and
\* nothing else; every prompt rendered carries the task text and, twice,
\* the completion promise of the options, the same in every iteration.
FrameOfIteration ==
    /\ [][(file' # file /\ file'.kind = "json")
             => /\ OnlyIterationChanged(file'.value)
                /\ file'.value.iteration <= drv'[1].state.iteration
                /\ drv[1].pc # "init"
                      => /\ file.kind = "json"
                         /\ file'.value.iteration > file.value.iteration
                         /\ [file'.value EXCEPT
                               !.iteration = file.value.iteration]
                                = file.value]_vars
    /\ []((drv[1].pc \notin {"start", "init"}
            /\ drv[1].outcome # "LockConflict")
             => OnlyIterationChanged(drv[1].state))
    /\ [](drv[1].fullPrompt # <<>>
             => /\ TaskText(drv[1].fullPrompt) = prompt
                /\ CompletionTags(drv[1].fullPrompt)
                       = <<completionPromise, completionPromise>>)
    /\ [][(drv[1].fullPrompt # <<>>)
             => /\ TaskText(drv'[1].fullPrompt) = TaskText(drv[1].fullPrompt)
                /\ CompletionTags(drv'[1].fullPrompt)
                       = CompletionTags(drv[1].fullPrompt)]_vars

\* C26 witness: the third child runs on a prompt rendered for iteration 3,
\* after one iteration ended in the try block and one in the catch block
ThirdPromptReached ==
    /\ drv[1].pc = "streaming"
    /\ Len(drv[1].children) = 3
    /\ drv[1].errors = 1
    /\ drv[1].state.iteration = 3
    /\ file = Json(drv[1].state)
    /\ drv[1].fullPrompt = buildPrompt([FreshState EXCEPT !.iteration = 3])

\* where runRalphLoop waits inside the auto-commit block
GitPoints == {"gitStatus", "gitAdd", "gitCommit"}

\* C27: the auto-commit block is entered only when auto-commit is on and
\* the child of the iteration has exited with code 0 without the
\* placeholder error and without the completion tag; git add and git
\* commit are run only after git status reported changes; a failure of
\* git status, git add or git commit ends the iteration in the try block:
\* the iteration number goes up by one, the record is saved, the driver
\* waits the delay of the normal path and has not exited.  The one
\* exception is a saveState that throws after the block, whatever git did:
\* then the catch block runs and the number has gone up twice.
AutoCommitSwallowed ==
    /\ [](drv[1].pc \in GitPoints
             => LET r        == drv[1]
                    child    == r.children[Len(r.children)]
                    combined == r.result \o <<"\n">> \o r.stderr
                IN  /\ autoCommit
                    /\ r.outcome = "none"
                    /\ ~child.alive /\ child.code = 0
                    /\ ~checkCompletion(combined, completionPromise)
                    /\ ~detectPlaceholderPluginError(combined)
                    /\ r.pc = "gitAdd" => r.git = "dirty"
                    /\ r.pc = "gitCommit" => r.git = "staged")
    /\ [][drv'[1].commits # drv[1].commits
             => /\ drv[1].pc = "gitCommit"
                /\ drv'[1].git = "committed"
                /\ drv'[1].commits = drv[1].commits + 1]_vars
    /\ [][(drv[1].pc \in GitPoints /\ drv'[1].git = "failed")
             => \/ /\ drv'[1].pc = "sleep"
                   /\ drv'[1].state.iteration = drv[1].state.iteration + 1
                   /\ file' = Json(drv'[1].state)
                   /\ drv'[1].errors = drv[1].errors
                   /\ drv'[1].commits = drv[1].commits
                   /\ drv'[1].exitCode = -1
                \/ /\ drv'[1].errors = drv[1].errors + 1
                   /\ drv'[1].state.iteration
                          = drv[1].state.iteration + 2]_vars

\* C27 witness: a git command of the auto-commit block has failed in
\* iteration 1, and the driver waits the delay of the normal path with
\* iteration 2 saved
CommitFailureSwallowed ==
    /\ drv[1].pc = "sleep"
    /\ drv[1].git = "failed"
    /\ drv[1].commits = 0 /\ drv[1].errors = 0
    /\ drv[1].state.iteration = 2
    /\ file = Json(drv[1].state)

\* C28: when streamProcessOutput returns, its texts and tool counts are
\* those the buffered mode gets from the same two streams: the same
\* combined text, the same completion decision, the same end of the
\* iteration for every exit code, and the same count for every tool,
\* in compact mode and in verbose mode.
ModesAgree ==
    sp.phase = "returned"
        => LET b        == BufferedOutput(sp.given.stdout, sp.given.stderr)
               streamed == sp.stdoutText \o <<"\n">> \o sp.stderrText
               buffered == b.stdoutText \o <<"\n">> \o b.stderrText
           IN  /\ streamed = buffered
               /\ checkCompletion(streamed, completionPromise)
                      = checkCompletion(buffered, completionPromise)
               /\ \A code \in ChildExitCodes :
                      IterationOutcome(sp.stdoutText, sp.stderrText, code)
                          = IterationOutcome(b.stdoutText, b.stderrText, code)
               /\ Entries(sp.toolCounts) = Entries(b.toolCounts)

\* C29: whenever the anchored detector checkTerminalPromise returns true on
\* an output and a promise, the loose detector checkCompletion returns true
\* on the same output and promise, colour codes in the output or not.
LooseAtLeastAnchored ==
    Detected => (call.result.terminal => call.result.loose)

(***************************************************************************)
(* Termination of a bounded loop (SpecLive).                               *)
(***************************************************************************)
\* the terminal states of a loop
TerminalStates == {"Completed", "MaxIterationsReached", "Aborted", "Cancelled"}

\* C30: a loop with maxIterations = N > 0 that has saved its first record
\* and installed its handlers, and whose children all exit and close their
\* streams, ends in one of the terminal states Completed,
\* MaxIterationsReached, Aborted or Cancelled, and it spawns at most N
\* children, whether its iterations end in the try block or in the catch
\* block.
BoundedTermination ==
    /\ (maxIterations > 0 /\ drv[1].handler)
           ~> (drv[1].pc = "exited" /\ drv[1].outcome \in TerminalStates)
    /\ [](maxIterations > 0 => Len(drv[1].children) <= maxIterations)

====
